---- MODULE Spec2Model ----
(***************************************************************************)
(* A model of the dissolve mDNS / DNS-SD responder:                        *)
(*   - the DNS name algebra (package names, package dnssd),                *)
(*   - the bonjour Answerer: the domain/service/instance tree and the      *)
(*     index from FQDN to a name-specific answerer,                        *)
(*   - the responder: receive tasks, main loop, query handling, sends.     *)
(*                                                                         *)
(* Strings are sequences of one-character strings, so that the name        *)
(* operations (validation, qualification, joining) are computed as the     *)
(* code computes them.  Durations are counted in milliseconds.             *)
(***************************************************************************)
EXTENDS Integers, Sequences, FiniteSets, TLC

VARIABLES
    domains,      \* Answerer.domains: domain FQDN -> Domain
    answerers,    \* Answerer.answerers: FQDN -> name-specific answerer
    regPanic,     \* a registry call panicked (the caller's goroutine died)
    lastOp,       \* the last registry call made (history)
    cfg,          \* the Responder's options: logger, disableIPv4, disableIPv6
    cancelled,    \* the caller cancelled the context given to Run
    ctxDone,      \* the context shared by Run's tasks is done
    firstErr,     \* errgroup: the first error returned by a task
    runResult,    \* what Run returned, "running" before that
    mainPc,       \* where the main loop is
    cmd,          \* the command the main loop received last
    qi,           \* handleQuery.query: the index of the next question
    uRes,         \* handleQuery.query: the unicast frame
    mRes,         \* handleQuery.query: the multicast frame
    recvPc,       \* where the receive task of each transport is
    held,         \* the command a receive task offers to the main loop
    tclosed,      \* whether each transport has been closed
    nRead,        \* the number of datagrams read so far
    trace,        \* what the main loop did, in order (history)
    buffers,      \* the buffer of each packet read: whether the packet still
                  \* holds it, and how often it was put back in the pool
    call,         \* the last call of a library function (history)
    done,         \* Responder.done: the channel was closed
    mu,           \* Answerer.m: the state of the read/write lock
    callers,      \* the goroutines that call the Answerer: where each one
                  \* is, and its local variables
    exec,         \* the goroutines that call Responder.execute
    rq,           \* a call of the DNS-SD Resolver's query
    arch          \* the architecture the program was built for

regVars == <<domains, answerers, regPanic, lastOp>>

respVars == <<cfg, cancelled, ctxDone, firstErr, runResult, mainPc, cmd, qi,
              uRes, mRes, recvPc, held, tclosed, nRead, trace, buffers, done>>

otherVars == <<mu, callers, exec, rq, arch>>

vars == <<domains, answerers, regPanic, lastOp, cfg, cancelled, ctxDone,
          firstErr, runResult, mainPc, cmd, qi, uRes, mRes, recvPc, held,
          tclosed, nRead, trace, buffers, call, done, mu, callers, exec, rq,
          arch>>

\* no library function was called yet
NoCall == [fn |-> "none"]

\* the goroutines that call Answerer.Answer, and those that call
\* AddInstance or RemoveInstance
Readers == {"r1", "r2"}

Writers == {"w1", "w2"}

\* the goroutines that call Responder.execute
ExecCallers == {"e1", "e2"}

\* sync.RWMutex: no writer holds or waits for the lock (w is the writer
\* that holds the inner mutex, pending whether it has announced itself to
\* the readers), no reader holds it or is blocked
FreeLock == [w |-> "none", pending |-> FALSE, readers |-> {}, blocked |-> {}]

\* The architectures of the builds.  They differ in what the conversion of
\* a floating-point number to uint32 gives for a number that a uint32
\* cannot hold, which the language leaves to the implementation: amd64
\* converts to a 64-bit integer and keeps its low 32 bits, arm64 gives the
\* nearest uint32.
Architectures == {"amd64", "arm64"}

\* no goroutine is in a call of the Answerer, of execute or of query; the
\* program was built for one of the architectures
OtherIdle ==
    /\ arch \in Architectures
    /\ mu = FreeLock
    /\ callers = [c \in Readers \cup Writers |-> [pc |-> "idle"]]
    /\ exec = [c \in ExecCallers |-> [pc |-> "idle"]]
    /\ rq = [pc |-> "idle"]

(***************************************************************************)
(* Maps (Go map values)                                                    *)
(***************************************************************************)
EmptyMap == [x \in {} |-> x]

Put(m, k, v) == [x \in (DOMAIN m) \cup {k} |-> IF x = k THEN v ELSE m[x]]

Del(m, k) == [x \in (DOMAIN m) \ {k} |-> m[x]]

Has(m, k) == k \in DOMAIN m

(***************************************************************************)
(* package names                                                           *)
(***************************************************************************)
Dot == "."

\* strings.Index(s, "."): the position of the first dot, 0 when there is
\* none (positions are counted from 1 here, Go returns -1 and counts from 0).
IndexDot(s) ==
    IF \E k \in 1..Len(s) : s[k] = Dot
    THEN CHOOSE k \in 1..Len(s) : s[k] = Dot /\ \A j \in 1..(k-1) : s[j] # Dot
    ELSE 0

\* Label.Validate
LabelValidate(n) == n # <<>> /\ IndexDot(n) = 0

\* UDN.Validate
UDNValidate(n) == n # <<>> /\ n[1] # Dot /\ n[Len(n)] # Dot

\* FQDN.Validate
FQDNValidate(n) == n # <<>> /\ n[1] # Dot /\ n[Len(n)] = Dot

\* A names.Name value: the dynamic type (kind) and the string.
Label(s) == [kind |-> "Label", s |-> s]
UDN(s) == [kind |-> "UDN", s |-> s]
FQDN(s) == [kind |-> "FQDN", s |-> s]

\* Name.Validate, dispatched on the dynamic type
NameValidate(n) ==
    CASE n.kind = "Label" -> LabelValidate(n.s)
      [] n.kind = "UDN" -> UDNValidate(n.s)
      [] n.kind = "FQDN" -> FQDNValidate(n.s)

\* Name.IsQualified
IsQualified(n) == n.kind = "FQDN"

\* names.Parse: the kind is chosen from the position of the first dot, then
\* the name is validated.
Parse(n) ==
    LET i == IndexDot(n)
        name == IF i = 0 THEN Label(n)
                ELSE IF i = Len(n) THEN FQDN(n)
                ELSE UDN(n)
    IN  [name |-> name, ok |-> NameValidate(name)]

\* The outcome of a call that panicked where a string was expected.  It is
\* not a name: "panic" is one element, never a character of a name.
Panicked == <<"panic">>

\* FQDN.String: the string of a valid name, a panic for any other
FQDNString(n) == IF FQDNValidate(n) THEN n ELSE Panicked

\* Name.Qualify(f) for a names.Name: an FQDN is returned unchanged, without
\* validation; any other name is n.String() + "." + f.String(), and each
\* String() panics when its receiver is not valid.  The result is the FQDN's
\* string.
Qualify(n, f) ==
    IF n.kind = "FQDN" THEN n.s
    ELSE IF ~NameValidate(n) \/ ~FQDNValidate(f) THEN Panicked
    ELSE n.s \o <<Dot>> \o f

(***************************************************************************)
(* package dnssd: names                                                    *)
(***************************************************************************)
\* InstanceName.Validate: only emptiness is checked
InstanceNameValidate(n) == n # <<>>

\* InstanceName.String: the name as it is, no escaping; panics when the
\* name is not valid
InstanceNameString(n) == IF InstanceNameValidate(n) THEN n ELSE Panicked

\* ServiceType.Validate
ServiceTypeValidate(n) == n # <<>> /\ n[1] # Dot /\ n[Len(n)] # Dot

\* "_services._dns-sd._udp"
ServiceTypeEnumName ==
    <<"_","s","e","r","v","i","c","e","s",".",
      "_","d","n","s","-","s","d",".","_","u","d","p">>

\* dnssd.TypeEnumDomain(domain)
TypeEnumDomain(domain) == Qualify(UDN(ServiceTypeEnumName), domain)

\* dnssd.InstanceEnumDomain(type, domain) = type.Qualify(domain), which is
\* type.String() + "." + domain.String(); each String() panics when its
\* receiver is not valid.
InstanceEnumDomain(t, domain) ==
    IF ~ServiceTypeValidate(t) \/ ~FQDNValidate(domain) THEN Panicked
    ELSE t \o <<Dot>> \o domain

(***************************************************************************)
(* package dnssd: Instance                                                 *)
(***************************************************************************)
Second == 1000

DefaultTTL == 120 * Second

\* InstanceName.Join(s) = MustParse(n.String() + "." + s.String()).  ok is
\* FALSE when the call panics: in n.String() or s.String() for a receiver
\* that is not valid (no name is parsed then), or in MustParse for a joined
\* name that is not valid.
InstanceNameJoin(n, t) ==
    IF InstanceNameString(n) = Panicked \/ ~ServiceTypeValidate(t)
    THEN [name |-> Label(Panicked), ok |-> FALSE]
    ELSE Parse(InstanceNameString(n) \o <<Dot>> \o t)

\* Instance.FQDN = Name.Join(ServiceType).Qualify(Domain): it panics when
\* Join panics or when Qualify does.
InstanceFQDN(i) ==
    LET j == InstanceNameJoin(i.Name, i.ServiceType)
    IN  IF ~j.ok THEN Panicked ELSE Qualify(j.name, i.Domain)

InstanceFQDNPanics(i) == InstanceFQDN(i) = Panicked

\* Instance.TargetFQDN
TargetFQDN(i) == Qualify(i.TargetHost, i.Domain)

\* A uint32: the number n modulo 2^32, held as its two 16-bit halves (its
\* value is hi * 65536 + lo), since the upper half of the uint32 range is
\* beyond the integers TLC computes with.
Uint32(n) == [hi |-> (n \div 65536) % 65536, lo |-> n % 65536]

\* Instance.TTLInSeconds: uint32(ttl.Seconds()).  A duration is a number of
\* milliseconds here.  The conversion drops the fraction (towards zero);
\* for a negative number of seconds the result depends on the build.
TTLInSeconds(i) ==
    LET ttl == IF i.TTL = 0 THEN DefaultTTL ELSE i.TTL
        s == IF ttl >= 0 THEN ttl \div Second ELSE -((-ttl) \div Second)
    IN  IF s >= 0 \/ arch = "amd64" THEN Uint32(s) ELSE Uint32(0)

\* Instance.Validate
InstanceValidate(i) ==
    /\ InstanceNameValidate(i.Name)
    /\ ServiceTypeValidate(i.ServiceType)
    /\ FQDNValidate(i.Domain)
    /\ NameValidate(i.TargetHost)
    /\ i.TargetPort # 0

(***************************************************************************)
(* package bonjour: the name-specific answerers.  An enumerator refers to  *)
(* its Domain or Service object, which is identified by its place in the   *)
(* tree; an instance or target answerer refers to its Instance.            *)
(***************************************************************************)
typeEnumAnswerer(d) == [kind |-> "typeEnum", domain |-> d.Name]

instanceEnumAnswerer(s) ==
    [kind |-> "instanceEnum", domain |-> s.Domain, type |-> s.Type]

instanceAnswerer(i) == [kind |-> "instance", inst |-> i]

targetAnswerer(i) == [kind |-> "target", inst |-> i]

(***************************************************************************)
(* Answerer.AddInstance without the removal of the replaced instance's     *)
(* target entry (a variant used to test C11).                              *)
(***************************************************************************)
AddInstanceNoUnregister(doms, ans, i) ==
    LET hadD == Has(doms, i.Domain)
        d0 == IF hadD THEN doms[i.Domain]
              ELSE [Name |-> i.Domain, Services |-> EmptyMap]
        ans1 == IF hadD THEN ans
                ELSE Put(ans, TypeEnumDomain(d0.Name), typeEnumAnswerer(d0))
        hadS == Has(d0.Services, i.ServiceType)
        s0 == IF hadS THEN d0.Services[i.ServiceType]
              ELSE [Type |-> i.ServiceType, Domain |-> i.Domain,
                    Instances |-> EmptyMap]
        ans2 == IF hadS THEN ans1
                ELSE Put(ans1, InstanceEnumDomain(s0.Type, s0.Domain),
                         instanceEnumAnswerer(s0))
        s1 == [s0 EXCEPT !.Instances = Put(@, i.Name, i)]
        d1 == [d0 EXCEPT !.Services = Put(@, s1.Type, s1)]
        doms1 == Put(doms, d1.Name, d1)
    IN  IF InstanceFQDNPanics(i)
        THEN [domains |-> doms1, answerers |-> ans2, panic |-> TRUE]
        ELSE [domains |-> doms1,
              answerers |-> Put(Put(ans2, InstanceFQDN(i), instanceAnswerer(i)),
                                TargetFQDN(i), targetAnswerer(i)),
              panic |-> FALSE]

(***************************************************************************)
(* Answerer.AddInstance, after validation, as a function of the tree and   *)
(* the index.  panic is TRUE when i.FQDN() panics; the tree and the index  *)
(* are then as the statements before it left them.                         *)
(***************************************************************************)
AddInstanceResult(doms, ans, i) ==
    LET hadD == Has(doms, i.Domain)
        d0 == IF hadD THEN doms[i.Domain]
              ELSE [Name |-> i.Domain, Services |-> EmptyMap]
        ans1 == IF hadD THEN ans
                ELSE Put(ans, TypeEnumDomain(d0.Name), typeEnumAnswerer(d0))
        hadS == Has(d0.Services, i.ServiceType)
        s0 == IF hadS THEN d0.Services[i.ServiceType]
              ELSE [Type |-> i.ServiceType, Domain |-> i.Domain,
                    Instances |-> EmptyMap]
        ans2 == IF hadS THEN ans1
                ELSE Put(ans1, InstanceEnumDomain(s0.Type, s0.Domain),
                         instanceEnumAnswerer(s0))
        hadI == Has(s0.Instances, i.Name)
        ans3 == IF hadI THEN Del(ans2, TargetFQDN(s0.Instances[i.Name]))
                ELSE ans2
        s1 == [s0 EXCEPT !.Instances = Put(@, i.Name, i)]
        d1 == [d0 EXCEPT !.Services = Put(@, s1.Type, s1)]
        doms1 == Put(doms, d1.Name, d1)
    IN  IF InstanceFQDNPanics(i)
        THEN [domains |-> doms1, answerers |-> ans3, panic |-> TRUE]
        ELSE [domains |-> doms1,
              answerers |-> Put(Put(ans3, InstanceFQDN(i), instanceAnswerer(i)),
                                TargetFQDN(i), targetAnswerer(i)),
              panic |-> FALSE]

(***************************************************************************)
(* Answerer.RemoveInstance without the pruning of a service left empty (a  *)
(* variant used to test C10).                                              *)
(***************************************************************************)
RemoveInstanceNoPrune(doms, ans, instance, service, domain) ==
    IF ~Has(doms, domain)
    THEN [domains |-> doms, answerers |-> ans, panic |-> FALSE]
    ELSE IF ~Has(doms[domain].Services, service)
    THEN [domains |-> doms, answerers |-> ans, panic |-> FALSE]
    ELSE IF ~Has(doms[domain].Services[service].Instances, instance)
    THEN [domains |-> doms, answerers |-> ans, panic |-> FALSE]
    ELSE
    LET d == doms[domain]
        s == d.Services[service]
        i == s.Instances[instance]
        s1 == [s EXCEPT !.Instances = Del(@, i.Name)]
        ans2 == Del(Del(ans, TargetFQDN(i)), InstanceFQDN(i))
    IN  [domains |-> Put(doms, domain, [d EXCEPT !.Services = Put(@, service, s1)]),
         answerers |-> ans2, panic |-> FALSE]

(***************************************************************************)
(* Answerer.RemoveInstance that drops the service and its enumeration      *)
(* entry when the service has no instance of the given name (a variant     *)
(* used to test C13).                                                      *)
(***************************************************************************)
RemoveInstanceEager(doms, ans, instance, service, domain) ==
    IF ~Has(doms, domain)
    THEN [domains |-> doms, answerers |-> ans, panic |-> FALSE]
    ELSE IF ~Has(doms[domain].Services, service)
    THEN [domains |-> doms, answerers |-> ans, panic |-> FALSE]
    ELSE IF ~Has(doms[domain].Services[service].Instances, instance)
    THEN [domains |-> Put(doms, domain,
                          [doms[domain] EXCEPT !.Services = Del(@, service)]),
          answerers |-> Del(ans, InstanceEnumDomain(service, domain)),
          panic |-> FALSE]
    ELSE RemoveInstanceNoPrune(doms, ans, instance, service, domain)

(***************************************************************************)
(* Answerer.RemoveInstance as a function of the tree and the index.        *)
(***************************************************************************)
RemoveInstanceResult(doms, ans, instance, service, domain) ==
    IF ~Has(doms, domain)
    THEN [domains |-> doms, answerers |-> ans, panic |-> FALSE]
    ELSE IF ~Has(doms[domain].Services, service)
    THEN [domains |-> doms, answerers |-> ans, panic |-> FALSE]
    ELSE IF ~Has(doms[domain].Services[service].Instances, instance)
    THEN [domains |-> doms, answerers |-> ans, panic |-> FALSE]
    ELSE
    LET d == doms[domain]
        s == d.Services[service]
        i == s.Instances[instance]
        s1 == [s EXCEPT !.Instances = Del(@, i.Name)]
        ans1 == Del(ans, TargetFQDN(i))
    IN  IF InstanceFQDNPanics(i)
        THEN [domains |-> Put(doms, domain,
                              [d EXCEPT !.Services = Put(@, service, s1)]),
              answerers |-> ans1, panic |-> TRUE]
        ELSE
        LET ans2 == Del(ans1, InstanceFQDN(i))
            sEmpty == DOMAIN s1.Instances = {}
            d1 == IF sEmpty
                  THEN [d EXCEPT !.Services = Del(@, i.ServiceType)]
                  ELSE [d EXCEPT !.Services = Put(@, service, s1)]
            ans3 == IF sEmpty
                    THEN Del(ans2, InstanceEnumDomain(s.Type, s.Domain))
                    ELSE ans2
            dEmpty == DOMAIN d1.Services = {}
            doms1 == IF dEmpty THEN Del(doms, i.Domain)
                     ELSE Put(doms, domain, d1)
            ans4 == IF dEmpty THEN Del(ans3, TypeEnumDomain(d.Name)) ELSE ans3
        IN  [domains |-> doms1, answerers |-> ans4, panic |-> FALSE]

(***************************************************************************)
(* Inputs of the registry calls                                            *)
(***************************************************************************)
NameA == <<"a">>
NameB == <<"b">>
TypeH == <<"_", "h", ".", "_", "t">>
TypeP == <<"_", "p", ".", "_", "t">>
DomL == <<"l", ".">>
DomM == <<"m", ".">>

InstNames == {NameA, NameB}

SvcTypes == {TypeH, TypeP}

Domains == {DomL, DomM}

NewInstance(n, t, d, h, p, ttl) ==
    [Name |-> n, ServiceType |-> t, Domain |-> d, TargetHost |-> h,
     TargetPort |-> p, Text |-> {}, Priority |-> 0, Weight |-> 0, TTL |-> ttl]

\* Two instances of one service on the same host, a second registration of
\* the first under another host, an instance of another type whose
\* qualified host is the same name, and an instance in another domain.
ValidInstances ==
    {NewInstance(NameA, TypeH, DomL, Label(<<"h">>), 80, 0),
     NewInstance(NameA, TypeH, DomL, Label(<<"g">>), 80, 60 * Second),
     NewInstance(NameB, TypeH, DomL, Label(<<"h">>), 81, 0),
     NewInstance(NameA, TypeP, DomL, FQDN(<<"h", ".", "l", ".">>), 82, 60 * Second),
     NewInstance(NameA, TypeH, DomM, Label(<<"h">>), 80, 0)}

\* Instances that Validate rejects (port 0, empty name, empty service type,
\* service type with a trailing dot, domain without its final dot, target
\* host label with a dot in it), and one whose FQDN cannot be built.
InvalidInstances ==
    {NewInstance(NameA, TypeH, DomL, Label(<<"h">>), 0, 0),
     NewInstance(<<>>, TypeH, DomL, Label(<<"h">>), 80, 0),
     NewInstance(NameA, <<>>, DomL, Label(<<"h">>), 80, 0),
     NewInstance(NameA, <<"_", "h", ".">>, DomL, Label(<<"h">>), 80, 0),
     NewInstance(NameA, TypeH, <<"l">>, Label(<<"h">>), 80, 0),
     NewInstance(NameA, TypeH, DomL, Label(<<"h", ".", "x">>), 80, 0),
     NewInstance(<<".", "a">>, TypeH, DomL, Label(<<"h">>), 80, 0)}

RegInstances == ValidInstances \cup InvalidInstances

(***************************************************************************)
(* package mdns: questions, records, messages.  Record and question types  *)
(* are written by name ("PTR", "SRV", "TXT", "A", "AAAA", "ANY"); classes  *)
(* are 16-bit numbers, whose top bit carries the mDNS flags.               *)
(***************************************************************************)
\* dns.ClassINET
ClassINET == 1

\* mdns.UnicastResponseBit = 1 << 15
UnicastResponseBit == 32768

\* mdns.UniqueRecordBit = 1 << 15
UniqueRecordBit == 32768

\* c & bit # 0, c | bit and c &^ bit, for a one-bit mask
HasBit(c, bit) == (c \div bit) % 2 = 1

SetBit(c, bit) == IF HasBit(c, bit) THEN c ELSE c + bit

ClearBit(c, bit) == IF HasBit(c, bit) THEN c - bit ELSE c

\* A variant of WantsUnicastResponse that never reports the flag (used to
\* test C2).
WantsUnicastNever(q) ==
    [unicast |-> FALSE,
     q |-> [q EXCEPT !.Qclass = ClearBit(@, UnicastResponseBit)]]

\* A variant of WantsUnicastResponse that returns the question as it was
\* given (used to test C31).
WantsUnicastKeepBit(q) ==
    [unicast |-> HasBit(q.Qclass, UnicastResponseBit), q |-> q]

\* mdns.WantsUnicastResponse: the flag, and the question with the bit cleared
WantsUnicastResponse(q) ==
    [unicast |-> HasBit(q.Qclass, UnicastResponseBit),
     q |-> [q EXCEPT !.Qclass = ClearBit(@, UnicastResponseBit)]]

\* mdns.SetUnicastResponse
SetUnicastResponse(q) == [q EXCEPT !.Qclass = SetBit(@, UnicastResponseBit)]

\* mdns.IsUniqueRecord: the flag, and the record with the bit cleared
IsUniqueRecord(r) ==
    [unique |-> HasBit(r.Class, UniqueRecordBit),
     r |-> [r EXCEPT !.Class = ClearBit(@, UniqueRecordBit)]]

\* A variant of SetUniqueRecord that leaves the class as it is (used to
\* test C4).
SetUniqueRecordNoop(r) == r

\* mdns.SetUniqueRecord: a copy of the record with the bit set
SetUniqueRecord(r) == [r EXCEPT !.Class = SetBit(@, UniqueRecordBit)]

\* A variant of ValidateQuery that does not look at the RCODE (used to test
\* C8).
ValidateQueryOpcodeOnly(m) ==
    IF m.Response THEN "panic"
    ELSE IF m.Opcode # 0 THEN "error"
    ELSE "ok"

\* mdns.ValidateQuery: "panic" for a response, "error" for a non-zero
\* OPCODE or RCODE, "ok" otherwise
ValidateQuery(m) ==
    IF m.Response THEN "panic"
    ELSE IF m.Opcode # 0 THEN "error"
    ELSE IF m.Rcode # 0 THEN "error"
    ELSE "ok"

\* dns.Msg.SetReply on a new message: the ID and the OPCODE of the request,
\* its RD and CD flags when the OPCODE is zero, and its first question
SetReply(request) ==
    [Id |-> request.Id,
     Response |-> TRUE,
     Opcode |-> request.Opcode,
     Authoritative |-> FALSE,
     Truncated |-> FALSE,
     RecursionDesired |-> (request.Opcode = 0 /\ request.RecursionDesired),
     RecursionAvailable |-> FALSE,
     Zero |-> FALSE,
     AuthenticatedData |-> FALSE,
     CheckingDisabled |-> (request.Opcode = 0 /\ request.CheckingDisabled),
     Rcode |-> 0,
     Compress |-> FALSE,
     Question |-> IF Len(request.Question) > 0
                  THEN <<request.Question[1]>> ELSE <<>>,
     Answer |-> <<>>,
     Ns |-> <<>>,
     Extra |-> <<>>]

\* A variant of NewResponse that keeps what SetReply copied from the query
\* but the ID (used to test C21).
NewResponseAsReply(query, unicast) ==
    [SetReply(query) EXCEPT !.Id = IF unicast THEN query.Id ELSE 0,
                            !.Authoritative = TRUE,
                            !.Compress = TRUE]

\* mdns.NewResponse: an empty response frame for the query
NewResponse(query, unicast) ==
    [SetReply(query) EXCEPT !.Question = <<>>,
                            !.Id = IF unicast THEN @ ELSE 0,
                            !.Opcode = 0,
                            !.Authoritative = TRUE,
                            !.Truncated = FALSE,
                            !.RecursionDesired = FALSE,
                            !.RecursionAvailable = FALSE,
                            !.Zero = FALSE,
                            !.AuthenticatedData = FALSE,
                            !.CheckingDisabled = FALSE,
                            !.Rcode = 0,
                            !.Compress = TRUE]

(***************************************************************************)
(* package dnssd: the records of an instance and of a service              *)
(***************************************************************************)
\* Each method below builds its record from the String() of the names it
\* uses, and String() panics for a name that is not valid: the method then
\* panics and no record is built.

\* Instance.PTR with the enumeration name as RDATA (a variant used to test
\* C15).
InstancePTRToService(i) ==
    LET name == FQDNString(InstanceEnumDomain(i.ServiceType, i.Domain))
    IN  IF name = Panicked THEN Panicked
        ELSE [Name |-> name, Rrtype |-> "PTR",
              Class |-> ClassINET, Ttl |-> TTLInSeconds(i), Data |-> name]

\* Instance.PTR
InstancePTR(i) ==
    LET name == FQDNString(InstanceEnumDomain(i.ServiceType, i.Domain))
        ptr == FQDNString(InstanceFQDN(i))
    IN  IF name = Panicked \/ ptr = Panicked THEN Panicked
        ELSE [Name |-> name, Rrtype |-> "PTR",
              Class |-> ClassINET, Ttl |-> TTLInSeconds(i), Data |-> ptr]

\* Instance.SRV
InstanceSRV(i) ==
    LET name == FQDNString(InstanceFQDN(i))
        target == FQDNString(TargetFQDN(i))
    IN  IF name = Panicked \/ target = Panicked THEN Panicked
        ELSE [Name |-> name, Rrtype |-> "SRV",
              Class |-> ClassINET, Ttl |-> TTLInSeconds(i),
              Data |-> [Priority |-> i.Priority, Weight |-> i.Weight,
                        Target |-> target, Port |-> i.TargetPort]]

\* Instance.TXT
InstanceTXT(i) ==
    LET name == FQDNString(InstanceFQDN(i))
    IN  IF name = Panicked THEN Panicked
        ELSE [Name |-> name, Rrtype |-> "TXT",
              Class |-> ClassINET, Ttl |-> TTLInSeconds(i), Data |-> i.Text]

\* Instance.A with the instance's own name as owner (a variant used to test
\* C20).
InstanceAOwnedByInstance(i, ip) ==
    LET name == FQDNString(InstanceFQDN(i))
    IN  IF name = Panicked THEN Panicked
        ELSE [Name |-> name, Rrtype |-> "A",
              Class |-> ClassINET, Ttl |-> TTLInSeconds(i), Data |-> ip]

\* Instance.A
InstanceA(i, ip) ==
    LET name == FQDNString(TargetFQDN(i))
    IN  IF name = Panicked THEN Panicked
        ELSE [Name |-> name, Rrtype |-> "A",
              Class |-> ClassINET, Ttl |-> TTLInSeconds(i), Data |-> ip]

\* Instance.AAAA
InstanceAAAA(i, ip) ==
    LET name == FQDNString(TargetFQDN(i))
    IN  IF name = Panicked THEN Panicked
        ELSE [Name |-> name, Rrtype |-> "AAAA",
              Class |-> ClassINET, Ttl |-> TTLInSeconds(i), Data |-> ip]

\* the largest TTL, in seconds, among the instances of a service: the
\* loop starts from 0 and compares uint32 values
RECURSIVE MaxTTL(_, _)
MaxTTL(insts, names) ==
    IF names = {} THEN Uint32(0)
    ELSE LET n == CHOOSE x \in names : TRUE
             rest == MaxTTL(insts, names \ {n})
             v == TTLInSeconds(insts[n])
         IN  IF v.hi > rest.hi \/ (v.hi = rest.hi /\ v.lo > rest.lo)
             THEN v ELSE rest

\* Service.PTR: ok is FALSE when the service has no instances; the names
\* are turned into strings only when it has some, and String() panics for a
\* name that is not valid
ServicePTR(s) ==
    LET name == FQDNString(TypeEnumDomain(s.Domain))
        ptr == FQDNString(InstanceEnumDomain(s.Type, s.Domain))
    IN  IF DOMAIN s.Instances = {} THEN [ok |-> FALSE]
        ELSE IF name = Panicked \/ ptr = Panicked THEN Panicked
        ELSE [ok |-> TRUE,
              r |-> [Name |-> name, Rrtype |-> "PTR",
                     Class |-> ClassINET,
                     Ttl |-> MaxTTL(s.Instances, DOMAIN s.Instances),
                     Data |-> ptr]]

(***************************************************************************)
(* package responder: Answer and ResponseSections                          *)
(***************************************************************************)
EmptySections ==
    [AnswerSection |-> <<>>, AuthoritySection |-> <<>>,
     AdditionalSection |-> <<>>]

EmptyAnswer == [Unique |-> EmptySections, Shared |-> EmptySections]

\* ResponseSections.IsEmpty
SectionsIsEmpty(rs) ==
    /\ Len(rs.AnswerSection) = 0
    /\ Len(rs.AuthoritySection) = 0
    /\ Len(rs.AdditionalSection) = 0

\* ResponseSections.Answer
SectionsAnswer(rs, records) == [rs EXCEPT !.AnswerSection = @ \o records]

\* ResponseSections.Authority
SectionsAuthority(rs, records) == [rs EXCEPT !.AuthoritySection = @ \o records]

\* ResponseSections.Additional
SectionsAdditional(rs, records) == [rs EXCEPT !.AdditionalSection = @ \o records]

\* appendUnique: copies of the records, each with the unique-record bit set
appendUnique(target, source) ==
    target \o [k \in 1..Len(source) |-> SetUniqueRecord(source[k])]

\* Answer.appendToMessage
appendToMessage(a, m, legacy) ==
    LET m1 == IF legacy
              THEN [m EXCEPT !.Answer = @ \o a.Unique.AnswerSection,
                             !.Ns = @ \o a.Unique.AuthoritySection,
                             !.Extra = @ \o a.Unique.AdditionalSection]
              ELSE [m EXCEPT !.Answer = appendUnique(@, a.Unique.AnswerSection),
                             !.Ns = appendUnique(@, a.Unique.AuthoritySection),
                             !.Extra = appendUnique(@, a.Unique.AdditionalSection)]
    IN  [m1 EXCEPT !.Answer = @ \o a.Shared.AnswerSection,
                   !.Ns = @ \o a.Shared.AuthoritySection,
                   !.Extra = @ \o a.Shared.AdditionalSection]

(***************************************************************************)
(* package bonjour: answering one question.  env is what the host tells    *)
(* during the call: env.local the outcome of listing the addresses of the  *)
(* interface of the question, env.remote the outcome of looking up a       *)
(* qualified                                                               *)
(* target host.  An outcome is [err, ips]; an IP address is [v4, addr].    *)
(* ord is the order in which a Go map is iterated during the call.         *)
(***************************************************************************)
\* addressRecords.  A qualified target host is looked up by its String(),
\* which panics for a name that is not valid, before the resolver is
\* called; the records of the addresses found are built by Instance.A and
\* Instance.AAAA, which panic when the qualified target host is not valid.
addressRecords(env, i) ==
    LET res == IF IsQualified(i.TargetHost) THEN env.remote ELSE env.local
        ip4 == SelectSeq(res.ips, LAMBDA ip : ip.v4)
        ip6 == SelectSeq(res.ips, LAMBDA ip : ~ip.v4)
    IN  IF IsQualified(i.TargetHost) /\ FQDNString(i.TargetHost.s) = Panicked
        THEN Panicked
        ELSE IF res.err
        THEN [err |-> TRUE, v4 |-> <<>>, v6 |-> <<>>]
        ELSE IF res.ips # <<>> /\ FQDNString(TargetFQDN(i)) = Panicked
        THEN Panicked
        ELSE [err |-> FALSE,
              v4 |-> [k \in 1..Len(ip4) |-> InstanceA(i, ip4[k])],
              v6 |-> [k \in 1..Len(ip6) |-> InstanceAAAA(i, ip6[k])]]

\* typeEnumAnswerer.Answer: the loop over the services of the domain
RECURSIVE typeEnumLoop(_, _, _)
typeEnumLoop(services, ord, a) ==
    IF ord = <<>> THEN a
    ELSE LET p == ServicePTR(services[Head(ord)])
             a1 == IF p.ok
                   THEN [a EXCEPT !.Shared = SectionsAnswer(@, <<p.r>>)]
                   ELSE a
         IN  typeEnumLoop(services, Tail(ord), a1)

typeEnumAnswer(d, q, ord, a) ==
    IF q.Qtype \in {"PTR", "ANY"}
    THEN [err |-> FALSE, a |-> typeEnumLoop(d.Services, ord, a)]
    ELSE [err |-> FALSE, a |-> a]

\* instanceEnumAnswerer.Answer: the loop over the instances of the service
RECURSIVE instanceEnumLoop(_, _, _, _)
instanceEnumLoop(instances, env, ord, a) ==
    IF ord = <<>> THEN a
    ELSE LET i == instances[Head(ord)]
             a1 == [a EXCEPT !.Unique = SectionsAnswer(@, <<InstancePTR(i)>>)]
             a2 == [a1 EXCEPT !.Unique =
                       SectionsAdditional(@, <<InstanceSRV(i), InstanceTXT(i)>>)]
             ar == addressRecords(env, i)
             a3 == IF ar.err THEN a2
                   ELSE [a2 EXCEPT !.Unique =
                            SectionsAdditional(SectionsAdditional(@, ar.v4), ar.v6)]
         IN  instanceEnumLoop(instances, env, Tail(ord), a3)

instanceEnumAnswer(s, q, env, ord, a) ==
    IF q.Qtype \in {"PTR", "ANY"}
    THEN [err |-> FALSE, a |-> instanceEnumLoop(s.Instances, env, ord, a)]
    ELSE [err |-> FALSE, a |-> a]

\* instanceAnswerer.Answer that adds the address records for every question
\* type it answers (a variant used to test C17).
instanceAnswerAlwaysAddresses(i, q, env, a) ==
    LET a1 == CASE q.Qtype = "ANY" ->
                     [a EXCEPT !.Unique =
                         SectionsAnswer(@, <<InstanceSRV(i), InstanceTXT(i)>>)]
                [] q.Qtype = "SRV" ->
                     [a EXCEPT !.Unique = SectionsAnswer(@, <<InstanceSRV(i)>>)]
                [] q.Qtype = "TXT" ->
                     [a EXCEPT !.Unique = SectionsAnswer(@, <<InstanceTXT(i)>>)]
                [] OTHER -> a
        ar == addressRecords(env, i)
        a2 == IF q.Qtype \in {"ANY", "SRV", "TXT"} /\ ~ar.err
              THEN [a1 EXCEPT !.Unique =
                       SectionsAdditional(SectionsAdditional(@, ar.v4), ar.v6)]
              ELSE a1
    IN  [err |-> FALSE, a |-> a2]

\* instanceAnswerer.Answer
instanceAnswer(i, q, env, a) ==
    LET hasSRV == q.Qtype \in {"ANY", "SRV"}
        a1 == CASE q.Qtype = "ANY" ->
                     [a EXCEPT !.Unique =
                         SectionsAnswer(@, <<InstanceSRV(i), InstanceTXT(i)>>)]
                [] q.Qtype = "SRV" ->
                     [a EXCEPT !.Unique = SectionsAnswer(@, <<InstanceSRV(i)>>)]
                [] q.Qtype = "TXT" ->
                     [a EXCEPT !.Unique = SectionsAnswer(@, <<InstanceTXT(i)>>)]
                [] OTHER -> a
        ar == addressRecords(env, i)
        a2 == IF hasSRV /\ ~ar.err
              THEN [a1 EXCEPT !.Unique =
                       SectionsAdditional(SectionsAdditional(@, ar.v4), ar.v6)]
              ELSE a1
    IN  [err |-> FALSE, a |-> a2]

\* targetAnswerer.Answer that puts the records of both families in the
\* answer section whatever the type (a variant used to test C18).
targetAnswerAllInAnswer(i, q, env, a) ==
    LET ar == addressRecords(env, i)
    IN  IF q.Qtype \notin {"A", "AAAA", "ANY"} THEN [err |-> FALSE, a |-> a]
        ELSE IF ar.err THEN [err |-> TRUE, a |-> a]
        ELSE [err |-> FALSE,
              a |-> [a EXCEPT !.Unique =
                        SectionsAnswer(SectionsAnswer(@, ar.v4), ar.v6)]]

\* targetAnswerer.Answer that ignores a failure to resolve the target (a
\* variant used to test C19).
targetAnswerSwallow(i, q, env, a) ==
    LET ar == addressRecords(env, i)
    IN  IF q.Qtype \notin {"A", "AAAA", "ANY"} THEN [err |-> FALSE, a |-> a]
        ELSE IF ar.err THEN [err |-> FALSE, a |-> a]
        ELSE [err |-> FALSE,
              a |-> CASE q.Qtype = "ANY" ->
                          [a EXCEPT !.Unique =
                              SectionsAnswer(SectionsAnswer(@, ar.v4), ar.v6)]
                     [] q.Qtype = "A" ->
                          [a EXCEPT !.Unique =
                              SectionsAdditional(SectionsAnswer(@, ar.v4), ar.v6)]
                     [] q.Qtype = "AAAA" ->
                          [a EXCEPT !.Unique =
                              SectionsAdditional(SectionsAnswer(@, ar.v6), ar.v4)]]

\* targetAnswerer.Answer
targetAnswer(i, q, env, a) ==
    LET ar == addressRecords(env, i)
    IN  IF q.Qtype \notin {"A", "AAAA", "ANY"} THEN [err |-> FALSE, a |-> a]
        ELSE IF ar.err THEN [err |-> TRUE, a |-> a]
        ELSE [err |-> FALSE,
              a |-> CASE q.Qtype = "ANY" ->
                          [a EXCEPT !.Unique =
                              SectionsAnswer(SectionsAnswer(@, ar.v4), ar.v6)]
                     [] q.Qtype = "A" ->
                          [a EXCEPT !.Unique =
                              SectionsAdditional(SectionsAnswer(@, ar.v4), ar.v6)]
                     [] q.Qtype = "AAAA" ->
                          [a EXCEPT !.Unique =
                              SectionsAdditional(SectionsAnswer(@, ar.v6), ar.v4)]]

\* the keys of the Go map that the answerer bound to name iterates over
IterationKeys(doms, ans, name) ==
    IF ~Has(ans, name) THEN {}
    ELSE CASE ans[name].kind = "typeEnum" ->
                  DOMAIN doms[ans[name].domain].Services
           [] ans[name].kind = "instanceEnum" ->
                  DOMAIN doms[ans[name].domain].Services[ans[name].type].Instances
           [] OTHER -> {}

\* the orders in which the keys S may be iterated
Orders(S) ==
    {o \in [1..Cardinality(S) -> S] : \A x \in S : \E k \in DOMAIN o : o[k] = x}

\* Answerer.Answer: the answerer is looked up by the question's name; a name
\* that is not in the index is answered with nothing
Answer(doms, ans, q, env, ord) ==
    IF ~Has(ans, q.Name) THEN [err |-> FALSE, a |-> EmptyAnswer]
    ELSE LET an == ans[q.Name]
         IN  CASE an.kind = "typeEnum" ->
                      typeEnumAnswer(doms[an.domain], q, ord, EmptyAnswer)
               [] an.kind = "instanceEnum" ->
                      instanceEnumAnswer(doms[an.domain].Services[an.type],
                                         q, env, ord, EmptyAnswer)
               [] an.kind = "instance" ->
                      instanceAnswer(an.inst, q, env, EmptyAnswer)
               [] an.kind = "target" ->
                      targetAnswer(an.inst, q, env, EmptyAnswer)

(***************************************************************************)
(* package transport                                                       *)
(***************************************************************************)
\* transport.Port
Port == 5353

Transports == {"udp4", "udp6"}

\* Transport.Group: the multicast group address of the transport
Group(t) ==
    [IP |-> IF t = "udp4" THEN "224.0.0.251" ELSE "ff02::fb", Port |-> Port]

\* Endpoint.IsLegacy
IsLegacy(ep) == ep.Address.Port # Port

\* Responder.iface: the index of the interface the responder was created
\* for (UseInterface, or the one internetInterface finds)
ResponderInterface == 2

\* another interface of the host
OtherInterface == ResponderInterface + 1

\* IPv4Transport.Write and IPv6Transport.Write: the datagram is written on
\* the transport's socket to the packet's destination address, with a
\* control message that names the packet's interface
Write(t, p) ==
    [Transport |-> t, IfIndex |-> p.To.InterfaceIndex, Dst |-> p.To.Address,
     Data |-> p.Msg]

\* A variant of SendResponse that sends on the responder's interface (used
\* to test C29).
SendResponseOnOwnInterface(in, to, m) ==
    IF Len(m.Question) = 0 /\ Len(m.Answer) = 0 /\ Len(m.Ns) = 0
       /\ Len(m.Extra) = 0
    THEN [send |-> FALSE]
    ELSE [send |-> TRUE,
          out |-> [Transport |-> in.Transport,
                   To |-> [InterfaceIndex |-> ResponderInterface,
                           Address |-> to],
                   Msg |-> m]]

\* A variant of SendResponse that packs and writes every frame (used to
\* test C5).
SendResponseAlways(in, to, m) ==
    [send |-> TRUE,
     out |-> [Transport |-> in.Transport,
              To |-> [InterfaceIndex |-> in.Source.InterfaceIndex,
                      Address |-> to],
              Msg |-> m]]

\* transport.SendResponse up to the write: nothing is sent for a frame with
\* no question and no record, otherwise the frame is packed into a packet
\* for the interface the query came from.
SendResponse(in, to, m) ==
    IF Len(m.Question) = 0 /\ Len(m.Answer) = 0 /\ Len(m.Ns) = 0
       /\ Len(m.Extra) = 0
    THEN [send |-> FALSE]
    ELSE [send |-> TRUE,
          out |-> [Transport |-> in.Transport,
                   To |-> [InterfaceIndex |-> in.Source.InterfaceIndex,
                           Address |-> to],
                   Msg |-> m]]

\* transport.SendUnicastResponse
SendUnicastResponse(in, m) == SendResponse(in, in.Source.Address, m)

\* transport.SendMulticastResponse
SendMulticastResponse(in, m) == SendResponse(in, Group(in.Transport), m)

(***************************************************************************)
(* Inputs of the responder                                                 *)
(***************************************************************************)
\* The registry the responder answers from: two instances of one service,
\* one on this host and one on a remote host, and an instance of another
\* service type on this host.
HostR == <<"r", ".", "l", ".">>

RunInstances ==
    <<NewInstance(NameA, TypeH, DomL, Label(<<"h">>), 80, 0),
      NewInstance(NameB, TypeH, DomL, FQDN(HostR), 81, 60 * Second),
      NewInstance(NameA, TypeP, DomL, Label(<<"h">>), 82, 0)>>

\* the tree and the index after AddInstance was called for each of is
RECURSIVE RegistryOf(_)
RegistryOf(is) ==
    IF is = <<>> THEN [domains |-> EmptyMap, answerers |-> EmptyMap]
    ELSE LET r == RegistryOf(SubSeq(is, 1, Len(is) - 1))
             n == AddInstanceResult(r.domains, r.answerers, is[Len(is)])
         IN  [domains |-> n.domains, answerers |-> n.answerers]

\* What the host may tell during one Answer call.
IP4 == [v4 |-> TRUE, addr |-> "192.0.2.1"]
IP6 == [v4 |-> FALSE, addr |-> "2001:db8::1"]
IP4R == [v4 |-> TRUE, addr |-> "192.0.2.9"]
IP4B == [v4 |-> TRUE, addr |-> "203.0.113.1"]

\* net.Interface.Addrs: the addresses of the host's interfaces
InterfaceAddrs(f) ==
    IF f = ResponderInterface THEN <<IP6, IP4>> ELSE <<IP4B>>

Failed == [err |-> TRUE, ips |-> <<>>]

Resolved(ips) == [err |-> FALSE, ips |-> ips]

Envs ==
    [local : {Failed, Resolved(InterfaceAddrs(ResponderInterface))},
     remote : {Failed, Resolved(<<IP4R>>)}]

\* Questions
NewQuestion(name, qtype) == [Name |-> name, Qtype |-> qtype, Qclass |-> ClassINET]

QInstanceEnum == NewQuestion(InstanceEnumDomain(TypeH, DomL), "PTR")
QInstanceEnumP == NewQuestion(InstanceEnumDomain(TypeP, DomL), "ANY")
QTypeEnum == NewQuestion(TypeEnumDomain(DomL), "PTR")
QInstance == NewQuestion(InstanceFQDN(RunInstances[1]), "ANY")
QInstanceTXT == NewQuestion(InstanceFQDN(RunInstances[3]), "TXT")
QTargetRemote == NewQuestion(TargetFQDN(RunInstances[2]), "A")
QTargetLocal == NewQuestion(TargetFQDN(RunInstances[1]), "A")
QUnknown == NewQuestion(<<"x", ".", "l", ".">>, "PTR")

\* Messages as they are after unpacking
NewMessage(id, response, opcode, rcode, qs) ==
    [Id |-> id, Response |-> response, Opcode |-> opcode, Rcode |-> rcode,
     Authoritative |-> FALSE, Truncated |-> FALSE, RecursionDesired |-> TRUE,
     RecursionAvailable |-> FALSE, Zero |-> FALSE,
     AuthenticatedData |-> FALSE, CheckingDisabled |-> FALSE,
     Question |-> qs]

\* the header flags of a message
HeaderFlags == {"AA", "TC", "RD", "RA", "Z", "AD", "CD"}

\* the message m with exactly the header flags of flags set
WithFlags(m, flags) ==
    [m EXCEPT !.Authoritative = "AA" \in flags,
              !.Truncated = "TC" \in flags,
              !.RecursionDesired = "RD" \in flags,
              !.RecursionAvailable = "RA" \in flags,
              !.Zero = "Z" \in flags,
              !.AuthenticatedData = "AD" \in flags,
              !.CheckingDisabled = "CD" \in flags]

QueryOf(qs) == NewMessage(7, FALSE, 0, 0, qs)

\* A datagram on the wire: where it came from, whether it unpacks, and the
\* message it unpacks to.
DatagramOn(f, port, parses, m) ==
    [Source |-> [InterfaceIndex |-> f,
                 Address |-> [IP |-> "198.51.100.5", Port |-> port]],
     Parses |-> parses, Msg |-> m]

\* a datagram that arrives on the responder's interface
Datagram(port, parses, m) == DatagramOn(ResponderInterface, port, parses, m)

\* a source port other than the mDNS port
LegacyPort == Port + 1

(***************************************************************************)
(* The responder (package responder).  Run starts one receive task per     *)
(* enabled address family and the main loop; the tasks share a context     *)
(* that is done once the caller cancels or a task returns an error.        *)
(***************************************************************************)
\* the number of datagrams that arrive during a run
MaxPackets == 2

NoError == "none"

NoCommand == [kind |-> "none"]

NoFrame == [kind |-> "none"]

Enabled4(c) == ~c.disableIPv4

Enabled6(c) == ~c.disableIPv6

TransportEnabled(c, t) == IF t = "udp4" THEN Enabled4(c) ELSE Enabled6(c)

\* getBuffer, as called by a transport's Read for the packet id: the packet
\* holds a buffer leased from the pool
getBuffer(bufs, id) == Put(bufs, id, [Data |-> TRUE, puts |-> 0])

\* InboundPacket.Close: putBuffer(p.Data), then p.Data = nil.  putBuffer
\* keeps a buffer whose capacity is at least bufferSize, which a leased one
\* has and a nil slice has not.
PacketClose(bufs, id) ==
    IF bufs[id].Data
    THEN [bufs EXCEPT ![id] = [Data |-> FALSE, puts |-> @.puts + 1]]
    ELSE bufs

\* a panic in any goroutine ends the process
Alive == mainPc # "panic"

\* A variant of run that leaves r.done open (used to test C38).
DoneNeverClosed == done' = done

\* Responder.run: defer close(r.done), which runs when the main loop
\* returns and when it panics
DoneAfter == done' = (done \/ mainPc' \in {"returned", "panic"})

\* the state of a Responder returned by New, before Run is called
RespIdle ==
    /\ cancelled = FALSE
    /\ ctxDone = FALSE
    /\ firstErr = NoError
    /\ runResult = "running"
    /\ mainPc = "init"
    /\ cmd = NoCommand
    /\ qi = 0
    /\ uRes = NoFrame
    /\ mRes = NoFrame
    /\ recvPc = [t \in Transports |-> "init"]
    /\ held = [t \in Transports |-> NoCommand]
    /\ tclosed = [t \in Transports |-> FALSE]
    /\ nRead = 0
    /\ buffers = EmptyMap
    /\ done = FALSE
    /\ trace = <<>>

\* responder.New with the options UseLogger, DisableIPv4, DisableIPv6
Configs == [logger : BOOLEAN, disableIPv4 : BOOLEAN, disableIPv6 : BOOLEAN]

\* errgroup: a task returns err; the first error is kept and the shared
\* context is cancelled
TaskReturns(err) ==
    /\ firstErr' = IF firstErr = NoError THEN err ELSE firstErr
    /\ ctxDone' = TRUE

\* Responder.Run up to g.Wait
RunStart ==
    /\ Alive
    /\ mainPc = "init"
    /\ runResult = "running"
    /\ IF cfg.disableIPv4 /\ cfg.disableIPv6
       THEN /\ runResult' = "both IPv4 and IPv6 are disabled"
            /\ UNCHANGED <<mainPc, recvPc>>
       ELSE /\ mainPc' = "sleep"
            /\ recvPc' = [t \in Transports |->
                             IF TransportEnabled(cfg, t) THEN "listen" ELSE "off"]
            /\ UNCHANGED runResult
    /\ UNCHANGED <<regVars, call, otherVars, done, buffers, cfg, cancelled, ctxDone, firstErr, cmd, qi, uRes,
                   mRes, held, tclosed, nRead, trace>>

\* Responder.Run from g.Wait: all tasks have returned
RunReturn ==
    /\ Alive
    /\ runResult = "running"
    /\ mainPc = "returned"
    /\ \A t \in Transports : recvPc[t] \in {"off", "returned"}
    /\ runResult' = IF firstErr = "context canceled" THEN "nil" ELSE firstErr
    /\ UNCHANGED <<regVars, call, otherVars, done, buffers, cfg, cancelled, ctxDone, firstErr, mainPc, cmd, qi,
                   uRes, mRes, recvPc, held, tclosed, nRead, trace>>

\* the caller cancels the context it gave to Run
Cancel ==
    /\ Alive
    /\ ~cancelled
    /\ runResult = "running"
    /\ cancelled' = TRUE
    /\ ctxDone' = TRUE
    /\ UNCHANGED <<regVars, call, otherVars, done, buffers, cfg, firstErr, runResult, mainPc, cmd, qi, uRes,
                   mRes, recvPc, held, tclosed, nRead, trace>>

(***************************************************************************)
(* Responder.receive for the transport t                                   *)
(***************************************************************************)
\* t.Listen: on failure the task returns the error
Listen(t) ==
    /\ Alive
    /\ recvPc[t] = "listen"
    /\ \E ok \in BOOLEAN :
          IF ok
          THEN /\ recvPc' = [recvPc EXCEPT ![t] = "read"]
               /\ UNCHANGED <<firstErr, ctxDone>>
          ELSE /\ recvPc' = [recvPc EXCEPT ![t] = "returned"]
               /\ TaskReturns("listen failed")
    /\ UNCHANGED <<regVars, call, otherVars, done, buffers, cfg, cancelled, runResult, mainPc, cmd, qi, uRes,
                   mRes, held, tclosed, nRead, trace>>

\* the goroutine that closes the transport once the context is done
CloseOnCancel(t) ==
    /\ Alive
    /\ recvPc[t] \in {"read", "handoff"}
    /\ ctxDone
    /\ ~tclosed[t]
    /\ tclosed' = [tclosed EXCEPT ![t] = TRUE]
    /\ UNCHANGED <<regVars, call, otherVars, done, buffers, cfg, cancelled, ctxDone, firstErr, runResult,
                   mainPc, cmd, qi, uRes, mRes, recvPc, held, nRead, trace>>

\* A variant of the read in which a task that still offers a command
\* reads the next datagram, whose command takes the place of the one
\* offered (used to test C36).
ReadPacketWhileOffering(t, d) ==
    /\ Alive
    /\ recvPc[t] \in {"read", "handoff"}
    /\ ~tclosed[t]
    /\ nRead < MaxPackets
    /\ nRead' = nRead + 1
    /\ buffers' = getBuffer(buffers, nRead + 1)
    /\ IF ~d.Parses
       THEN UNCHANGED <<recvPc, held>>
       ELSE /\ recvPc' = [recvPc EXCEPT ![t] = "handoff"]
            /\ held' = [held EXCEPT ![t] =
                  [kind |-> IF d.Msg.Response THEN "response" ELSE "query",
                   id |-> nRead + 1,
                   Packet |-> [Transport |-> t, Source |-> d.Source],
                   Message |-> d.Msg]]
    /\ UNCHANGED <<regVars, call, otherVars, done, cfg, cancelled, ctxDone, firstErr, runResult,
                   mainPc, cmd, qi, uRes, mRes, tclosed, trace>>

\* t.Read returns the datagram d; a datagram that does not unpack is logged
\* and skipped, any other becomes a command that is offered to the main loop
ReadPacket(t, d) ==
    /\ Alive
    /\ recvPc[t] = "read"
    /\ ~tclosed[t]
    /\ nRead < MaxPackets
    /\ nRead' = nRead + 1
    /\ buffers' = getBuffer(buffers, nRead + 1)
    /\ IF ~d.Parses
       THEN UNCHANGED <<recvPc, held>>
       ELSE /\ recvPc' = [recvPc EXCEPT ![t] = "handoff"]
            /\ held' = [held EXCEPT ![t] =
                  [kind |-> IF d.Msg.Response THEN "response" ELSE "query",
                   id |-> nRead + 1,
                   Packet |-> [Transport |-> t, Source |-> d.Source],
                   Message |-> d.Msg]]
    /\ UNCHANGED <<regVars, call, otherVars, done, cfg, cancelled, ctxDone, firstErr, runResult,
                   mainPc, cmd, qi, uRes, mRes, tclosed, trace>>

\* t.Read fails because the transport was closed: the task returns ctx.Err()
\* when the context is done, and the read error otherwise
ReadClosed(t) ==
    /\ Alive
    /\ recvPc[t] = "read"
    /\ tclosed[t]
    /\ recvPc' = [recvPc EXCEPT ![t] = "returned"]
    /\ TaskReturns(IF ctxDone THEN "context canceled"
                   ELSE "use of closed network connection")
    /\ UNCHANGED <<regVars, call, otherVars, done, buffers, cfg, cancelled, runResult, mainPc, cmd, qi, uRes,
                   mRes, held, tclosed, nRead, trace>>

\* t.Read fails for another reason: the task returns the error and closes
\* the transport
ReadFault(t) ==
    /\ Alive
    /\ recvPc[t] = "read"
    /\ ~tclosed[t]
    /\ recvPc' = [recvPc EXCEPT ![t] = "returned"]
    /\ tclosed' = [tclosed EXCEPT ![t] = TRUE]
    /\ TaskReturns("read failed")
    /\ UNCHANGED <<regVars, call, otherVars, done, buffers, cfg, cancelled, runResult, mainPc, cmd, qi, uRes,
                   mRes, held, nRead, trace>>

\* the context is done while the task offers its command: the task returns
HandoffCancel(t) ==
    /\ Alive
    /\ recvPc[t] = "handoff"
    /\ ctxDone
    /\ recvPc' = [recvPc EXCEPT ![t] = "returned"]
    /\ held' = [held EXCEPT ![t] = NoCommand]
    /\ tclosed' = [tclosed EXCEPT ![t] = TRUE]
    /\ TaskReturns("context canceled")
    /\ UNCHANGED <<regVars, call, otherVars, done, buffers, cfg, cancelled, runResult, mainPc, cmd, qi, uRes,
                   mRes, nRead, trace>>

(***************************************************************************)
(* Responder.run, the main loop                                            *)
(***************************************************************************)
\* the start-up delay elapses
SleepElapse ==
    /\ Alive
    /\ mainPc = "sleep"
    /\ mainPc' = "select"
    /\ UNCHANGED <<regVars, call, otherVars, done, buffers, cfg, cancelled, ctxDone, firstErr, runResult, cmd,
                   qi, uRes, mRes, recvPc, held, tclosed, nRead, trace>>

\* the context is done during the start-up delay, or while the loop waits
\* for a command: run returns ctx.Err()
MainCancel ==
    /\ Alive
    /\ mainPc \in {"sleep", "select"}
    /\ ctxDone
    /\ mainPc' = "returned"
    /\ TaskReturns("context canceled")
    /\ UNCHANGED <<regVars, call, otherVars, buffers, cfg, cancelled, runResult, cmd, qi, uRes, mRes,
                   recvPc, held, tclosed, nRead, trace>>
    /\ DoneAfter

\* A variant of the hand-off in which the loop also receives a command
\* while the multicast send of the previous one is pending, which is then
\* never made (used to test C9).
HandoffEarly(t) ==
    /\ Alive
    /\ mainPc \in {"select", "sendM"}
    /\ recvPc[t] = "handoff"
    /\ cmd' = held[t]
    /\ held' = [held EXCEPT ![t] = NoCommand]
    /\ recvPc' = [recvPc EXCEPT ![t] = "read"]
    /\ mainPc' = "exec"
    /\ qi' = 0
    /\ uRes' = NoFrame
    /\ mRes' = NoFrame
    /\ UNCHANGED <<regVars, call, otherVars, done, buffers, cfg, cancelled, ctxDone, firstErr, runResult,
                   tclosed, nRead, trace>>

\* the loop receives the command that the receive task of t offers; the
\* task goes back to reading
Handoff(t) ==
    /\ Alive
    /\ mainPc = "select"
    /\ recvPc[t] = "handoff"
    /\ cmd' = held[t]
    /\ held' = [held EXCEPT ![t] = NoCommand]
    /\ recvPc' = [recvPc EXCEPT ![t] = "read"]
    /\ mainPc' = "exec"
    /\ qi' = 0
    /\ uRes' = NoFrame
    /\ mRes' = NoFrame
    /\ UNCHANGED <<regVars, call, otherVars, done, buffers, cfg, cancelled, ctxDone, firstErr, runResult,
                   tclosed, nRead, trace>>

\* handleResponse.Execute
HandleResponse ==
    /\ Alive
    /\ mainPc = "exec"
    /\ cmd.kind = "response"
    /\ mainPc' = "select"
    /\ buffers' = PacketClose(buffers, cmd.id)
    /\ trace' = Append(trace, [id |-> cmd.id, ev |-> "done",
                               outcome |-> "response"])
    /\ UNCHANGED <<regVars, call, otherVars, done, cfg, cancelled, ctxDone, firstErr, runResult, cmd,
                   qi, uRes, mRes, recvPc, held, tclosed, nRead>>

\* handleQuery.Execute when query returned an error: the error is logged
\* with r.logger.Log, which is a call on a nil interface when no logger
\* was configured
QueryFails(outcome) ==
    /\ trace' = Append(trace, [id |-> cmd.id, ev |-> "done",
                               outcome |-> outcome])
    /\ mainPc' = IF cfg.logger THEN "select" ELSE "panic"
    /\ buffers' = PacketClose(buffers, cmd.id)

\* handleQuery.query: validation, and the two empty frames
QueryValidate ==
    /\ Alive
    /\ mainPc = "exec"
    /\ cmd.kind = "query"
    /\ LET v == ValidateQuery(cmd.Message)
       IN  CASE v = "panic" ->
                    /\ mainPc' = "panic"
                    /\ buffers' = PacketClose(buffers, cmd.id)
                    /\ UNCHANGED <<qi, uRes, mRes, trace>>
             [] v = "error" ->
                    /\ QueryFails("invalid")
                    /\ UNCHANGED <<qi, uRes, mRes>>
             [] v = "ok" ->
                    /\ uRes' = NewResponse(cmd.Message, TRUE)
                    /\ mRes' = NewResponse(cmd.Message, FALSE)
                    /\ qi' = 1
                    /\ mainPc' = IF Len(cmd.Message.Question) = 0
                                 THEN "sendU" ELSE "answer"
                    /\ UNCHANGED <<trace, buffers>>
    /\ UNCHANGED <<regVars, call, otherVars, cfg, cancelled, ctxDone, firstErr, runResult, cmd,
                   recvPc, held, tclosed, nRead>>
    /\ DoneAfter

\* A variant of the loop over the questions that goes on with the next
\* question when the Answerer returns an error (used to test C35).
QueryAnswerSkipError(env) ==
    /\ Alive
    /\ mainPc = "answer"
    /\ LET rawQ == cmd.Message.Question[qi]
           w == WantsUnicastResponse(rawQ)
           legacy == IsLegacy(cmd.Packet.Source)
       IN  \E ord \in Orders(IterationKeys(domains, answerers, w.q.Name)) :
           LET r == Answer(domains, answerers, w.q, env, ord)
           IN  /\ trace' = Append(trace, [id |-> cmd.id, ev |-> "answer",
                                          via |-> cmd.Packet.Transport,
                                          iface |-> ResponderInterface,
                                          k |-> qi, q |-> w.q,
                                          unicast |-> w.unicast,
                                          err |-> r.err, a |-> r.a])
               /\ IF r.err
                  THEN UNCHANGED <<uRes, mRes>>
                  ELSE IF w.unicast \/ legacy
                  THEN /\ uRes' = appendToMessage(r.a, uRes, legacy)
                       /\ UNCHANGED mRes
                  ELSE /\ mRes' = appendToMessage(r.a, mRes, FALSE)
                       /\ UNCHANGED uRes
               /\ qi' = qi + 1
               /\ mainPc' = IF qi = Len(cmd.Message.Question)
                            THEN "sendU" ELSE "answer"
               /\ UNCHANGED buffers
    /\ UNCHANGED <<regVars, call, otherVars, cfg, cancelled, ctxDone, firstErr, runResult, cmd,
                   recvPc, held, tclosed, nRead>>
    /\ DoneAfter

\* handleQuery.query: one iteration of the loop over the questions.  The
\* question is given to the Answerer with Interface: *r.iface, so env.local
\* is the outcome of listing the addresses of the responder's interface.
QueryAnswer(env) ==
    /\ Alive
    /\ mainPc = "answer"
    /\ LET rawQ == cmd.Message.Question[qi]
           w == WantsUnicastResponse(rawQ)
           legacy == IsLegacy(cmd.Packet.Source)
       IN  \E ord \in Orders(IterationKeys(domains, answerers, w.q.Name)) :
           LET r == Answer(domains, answerers, w.q, env, ord)
               asked == Append(trace, [id |-> cmd.id, ev |-> "answer",
                                       via |-> cmd.Packet.Transport,
                                       iface |-> ResponderInterface,
                                       k |-> qi, q |-> w.q,
                                       unicast |-> w.unicast,
                                       err |-> r.err, a |-> r.a])
           IN  IF r.err
               THEN /\ trace' = Append(asked, [id |-> cmd.id, ev |-> "done",
                                               outcome |-> "answer failed"])
                    /\ mainPc' = IF cfg.logger THEN "select" ELSE "panic"
                    /\ buffers' = PacketClose(buffers, cmd.id)
                    /\ UNCHANGED <<qi, uRes, mRes>>
               ELSE /\ trace' = asked
                    /\ IF w.unicast \/ legacy
                       THEN /\ uRes' = appendToMessage(r.a, uRes, legacy)
                            /\ UNCHANGED mRes
                       ELSE /\ mRes' = appendToMessage(r.a, mRes, FALSE)
                            /\ UNCHANGED uRes
                    /\ qi' = qi + 1
                    /\ mainPc' = IF qi = Len(cmd.Message.Question)
                                 THEN "sendU" ELSE "answer"
                    /\ UNCHANGED buffers
    /\ UNCHANGED <<regVars, call, otherVars, cfg, cancelled, ctxDone, firstErr, runResult, cmd,
                   recvPc, held, tclosed, nRead>>
    /\ DoneAfter

\* A variant of the unicast send in which a frame that was written is
\* written a second time (used to test C3).
QuerySendUnicastTwice(written) ==
    /\ Alive
    /\ mainPc = "sendU"
    /\ LET s == SendUnicastResponse(cmd.Packet, uRes)
           e == [id |-> cmd.id, ev |-> "send", kind |-> "unicast",
                 out |-> s.out, wire |-> Write(s.out.Transport, s.out)]
       IN  IF ~s.send
           THEN /\ written
                /\ mainPc' = "sendM"
                /\ UNCHANGED <<trace, buffers>>
           ELSE IF written
           THEN /\ mainPc' = "sendM"
                /\ trace' = trace \o <<e, e>>
                /\ UNCHANGED buffers
           ELSE /\ trace' = Append(trace, [id |-> cmd.id, ev |-> "done",
                                           outcome |-> "send failed"])
                /\ mainPc' = IF cfg.logger THEN "select" ELSE "panic"
                /\ buffers' = PacketClose(buffers, cmd.id)
    /\ UNCHANGED <<regVars, call, otherVars, cfg, cancelled, ctxDone, firstErr, runResult, cmd,
                   qi, uRes, mRes, recvPc, held, tclosed, nRead>>
    /\ DoneAfter

\* handleQuery.query: transport.SendUnicastResponse; written is whether the
\* packing and the write succeed
QuerySendUnicast(written) ==
    /\ Alive
    /\ mainPc = "sendU"
    /\ LET s == SendUnicastResponse(cmd.Packet, uRes)
       IN  IF ~s.send
           THEN /\ written
                /\ mainPc' = "sendM"
                /\ UNCHANGED <<trace, buffers>>
           ELSE IF written
           THEN /\ mainPc' = "sendM"
                /\ trace' = Append(trace, [id |-> cmd.id, ev |-> "send",
                                           kind |-> "unicast", out |-> s.out,
                                           wire |-> Write(s.out.Transport,
                                                          s.out)])
                /\ UNCHANGED buffers
           ELSE QueryFails("send failed")
    /\ UNCHANGED <<regVars, call, otherVars, cfg, cancelled, ctxDone, firstErr, runResult, cmd,
                   qi, uRes, mRes, recvPc, held, tclosed, nRead>>
    /\ DoneAfter

\* handleQuery.query: transport.SendMulticastResponse, then the return
QuerySendMulticast(written) ==
    /\ Alive
    /\ mainPc = "sendM"
    /\ LET s == SendMulticastResponse(cmd.Packet, mRes)
       IN  IF ~s.send
           THEN /\ written
                /\ mainPc' = "select"
                /\ buffers' = PacketClose(buffers, cmd.id)
                /\ trace' = Append(trace, [id |-> cmd.id, ev |-> "done",
                                           outcome |-> "ok"])
           ELSE IF written
           THEN /\ mainPc' = "select"
                /\ buffers' = PacketClose(buffers, cmd.id)
                /\ trace' =
                       trace \o <<[id |-> cmd.id, ev |-> "send",
                                   kind |-> "multicast", out |-> s.out,
                                   wire |-> Write(s.out.Transport, s.out)],
                                  [id |-> cmd.id, ev |-> "done",
                                   outcome |-> "ok"]>>
           ELSE QueryFails("send failed")
    /\ UNCHANGED <<regVars, call, otherVars, cfg, cancelled, ctxDone, firstErr, runResult, cmd,
                   qi, uRes, mRes, recvPc, held, tclosed, nRead>>
    /\ DoneAfter

(***************************************************************************)
(* Registry calls                                                          *)
(***************************************************************************)
\* whether (instance, service, domain) is registered in the tree doms
Registered(doms, instance, service, domain) ==
    /\ Has(doms, domain)
    /\ Has(doms[domain].Services, service)
    /\ Has(doms[domain].Services[service].Instances, instance)

RegInit ==
    /\ domains = EmptyMap
    /\ answerers = EmptyMap
    /\ regPanic = FALSE
    /\ lastOp = [op |-> "none"]
    /\ call = NoCall
    /\ OtherIdle
    /\ cfg = [logger |-> TRUE, disableIPv4 |-> FALSE, disableIPv6 |-> FALSE]
    /\ RespIdle

\* Answerer.AddInstance with the validation done after the tree and the
\* index were written (a variant used to test C12).
AddInstanceNoValidate(i) ==
    /\ ~regPanic
    /\ LET r == AddInstanceResult(domains, answerers, i)
       IN  /\ domains' = r.domains
           /\ answerers' = r.answerers
           /\ regPanic' = (r.panic \/ ~InstanceValidate(i))
    /\ lastOp' = [op |-> "add", name |-> i.Name, type |-> i.ServiceType,
                  domain |-> i.Domain, valid |-> InstanceValidate(i),
                  found |-> Registered(domains, i.Name, i.ServiceType, i.Domain),
                  inst |-> i, old |-> <<>>]
    /\ UNCHANGED <<respVars, call, otherVars>>

\* Answerer.AddInstance: panics before taking the lock when i is invalid.
\* lastOp keeps the instance given and the instance it replaced, if any.
AddInstance(i) ==
    /\ ~regPanic
    /\ IF ~InstanceValidate(i)
       THEN /\ regPanic' = TRUE
            /\ UNCHANGED <<domains, answerers>>
       ELSE LET r == AddInstanceResult(domains, answerers, i)
            IN  /\ domains' = r.domains
                /\ answerers' = r.answerers
                /\ regPanic' = r.panic
    /\ lastOp' = [op |-> "add", name |-> i.Name, type |-> i.ServiceType,
                  domain |-> i.Domain, valid |-> InstanceValidate(i),
                  found |-> Registered(domains, i.Name, i.ServiceType, i.Domain),
                  inst |-> i,
                  old |-> IF Registered(domains, i.Name, i.ServiceType, i.Domain)
                          THEN <<domains[i.Domain].Services[i.ServiceType]
                                     .Instances[i.Name]>>
                          ELSE <<>>]
    /\ UNCHANGED <<respVars, call, otherVars>>

\* Answerer.RemoveInstance
RemoveInstance(instance, service, domain) ==
    /\ ~regPanic
    /\ LET r == RemoveInstanceResult(domains, answerers, instance, service, domain)
       IN  /\ domains' = r.domains
           /\ answerers' = r.answerers
           /\ regPanic' = r.panic
    /\ lastOp' = [op |-> "remove", name |-> instance, type |-> service,
                  domain |-> domain, valid |-> TRUE,
                  found |-> Registered(domains, instance, service, domain)]
    /\ UNCHANGED <<respVars, call, otherVars>>

RegNext ==
    \/ \E i \in RegInstances : AddInstance(i)
    \/ \E n \in InstNames, t \in SvcTypes, d \in Domains : RemoveInstance(n, t, d)

SpecRegistry == RegInit /\ [][RegNext]_vars


(***************************************************************************)
(* Calls of Answerer.Answer between the registry calls.  The call reads    *)
(* the tree and the index under the read lock; lastOp keeps the question,  *)
(* what the host told during the call, and the outcome.                    *)
(***************************************************************************)
\* the names asked for: the enumeration names, instance names and target
\* names of the instances that may be registered, and a name that never is
AnswerNames ==
    {TypeEnumDomain(DomL), InstanceEnumDomain(TypeH, DomL),
     InstanceEnumDomain(TypeP, DomL),
     InstanceNameJoin(NameA, TypeH).name.s \o <<Dot>> \o DomL,
     InstanceNameJoin(NameA, TypeP).name.s \o <<Dot>> \o DomL,
     <<"h", ".", "l", ".">>, <<"g", ".", "l", ".">>,
     <<"x", ".", "l", ".">>}

\* the question types asked for; NS stands for the types no answerer knows
AnswerTypes == {"PTR", "ANY", "SRV", "TXT", "A", "AAAA", "NS"}

AnswerQuestions == {NewQuestion(n, t) : n \in AnswerNames, t \in AnswerTypes}

\* Answerer.Answer
AnswerCall(q, env) ==
    /\ ~regPanic
    /\ \E ord \in Orders(IterationKeys(domains, answerers, q.Name)) :
           LET r == Answer(domains, answerers, q, env, ord)
           IN  lastOp' = [op |-> "answer", q |-> q, env |-> env,
                          err |-> r.err, a |-> r.a]
    /\ UNCHANGED <<domains, answerers, regPanic>>
    /\ UNCHANGED <<respVars, call, otherVars>>

\* the instances registered between the calls: those of ValidInstances in
\* the domain asked about, the second one of the service with a negative
\* TTL, which Validate accepts
AnswerInstances ==
    {i \in ValidInstances : i.Domain = DomL /\ i.Name = NameA}
        \cup {NewInstance(NameB, TypeH, DomL, Label(<<"h">>), 81, -2 * Second)}

AnswerNext ==
    \/ \E i \in AnswerInstances : AddInstance(i)
    \/ \E n \in InstNames, t \in SvcTypes : RemoveInstance(n, t, DomL)
    \/ \E q \in AnswerQuestions, env \in Envs : AnswerCall(q, env)

SpecAnswer == RegInit /\ [][AnswerNext]_vars
(***************************************************************************)
(* The responder's runs                                                    *)
(***************************************************************************)
\* a message that stands for the content of a datagram that does not unpack
NoMessage == NewMessage(0, FALSE, 0, 0, <<>>)

\* The datagrams of a run: a query with a non-zero OPCODE, a legacy query
\* for the address of a remote host, a response, and a datagram that does
\* not unpack.
RunDatagrams ==
    {Datagram(Port, TRUE, NewMessage(7, FALSE, 1, 0, <<QInstanceEnum>>)),
     Datagram(LegacyPort, TRUE, QueryOf(<<QTargetRemote>>)),
     Datagram(Port, TRUE, NewMessage(0, TRUE, 0, 0, <<>>)),
     Datagram(Port, FALSE, NoMessage)}

\* the state after New, with the registry filled
RunInit ==
    /\ domains = RegistryOf(RunInstances).domains
    /\ answerers = RegistryOf(RunInstances).answerers
    /\ regPanic = FALSE
    /\ lastOp = [op |-> "none"]
    /\ call = NoCall
    /\ OtherIdle
    /\ cfg \in Configs
    /\ RespIdle

RunNext ==
    \/ RunStart
    \/ RunReturn
    \/ Cancel
    \/ \E t \in Transports : Listen(t)
    \/ \E t \in Transports : CloseOnCancel(t)
    \/ \E t \in Transports, d \in RunDatagrams : ReadPacket(t, d)
    \/ \E t \in Transports : ReadClosed(t)
    \/ \E t \in Transports : ReadFault(t)
    \/ \E t \in Transports : HandoffCancel(t)
    \/ SleepElapse
    \/ MainCancel
    \/ \E t \in Transports : Handoff(t)
    \/ HandleResponse
    \/ QueryValidate
    \/ \E env \in Envs : QueryAnswer(env)
    \/ \E written \in BOOLEAN : QuerySendUnicast(written)
    \/ \E written \in BOOLEAN : QuerySendMulticast(written)

SpecRun == RunInit /\ [][RunNext]_vars

(***************************************************************************)
(* Query handling: the responder is up with one address family (its        *)
(* transport listens, the start-up delay has elapsed) and nothing fails    *)
(* but the handling of a query.                                            *)
(***************************************************************************)
\* The queries: a unicast-request enumeration of a service with two
\* instances; a legacy query with an enumeration and a type enumeration; a
\* unicast-request question followed by a multicast one; one
\* unicast-request question for a name that is not registered; the address
\* of a remote host followed by an enumeration; a query without questions;
\* a query with a non-zero OPCODE and one with a non-zero RCODE.
QueryDatagrams ==
    {Datagram(Port, TRUE, QueryOf(<<SetUnicastResponse(QInstanceEnum)>>)),
     Datagram(LegacyPort, TRUE, QueryOf(<<QInstanceEnumP, QTypeEnum>>)),
     Datagram(Port, TRUE, QueryOf(<<SetUnicastResponse(QInstance), QTypeEnum>>)),
     Datagram(Port, TRUE, QueryOf(<<SetUnicastResponse(QUnknown)>>)),
     Datagram(Port, TRUE, QueryOf(<<QTargetRemote, QInstanceEnumP>>)),
     Datagram(Port, TRUE, QueryOf(<<>>)),
     Datagram(Port, TRUE, NewMessage(7, FALSE, 1, 0, <<QInstanceEnumP>>)),
     Datagram(Port, TRUE,
              NewMessage(7, FALSE, 0, 3, <<SetUnicastResponse(QInstanceEnumP)>>))}

\* A logger is configured: without one the handling of a query ends in a
\* panic where it ends in a log line here, and is the same up to there.
QueryInit ==
    /\ domains = RegistryOf(RunInstances).domains
    /\ answerers = RegistryOf(RunInstances).answerers
    /\ regPanic = FALSE
    /\ lastOp = [op |-> "none"]
    /\ call = NoCall
    /\ OtherIdle
    /\ cfg \in {c \in Configs : c.logger /\ c.disableIPv4 # c.disableIPv6}
    /\ cancelled = FALSE
    /\ ctxDone = FALSE
    /\ firstErr = NoError
    /\ runResult = "running"
    /\ mainPc = "select"
    /\ cmd = NoCommand
    /\ qi = 0
    /\ uRes = NoFrame
    /\ mRes = NoFrame
    /\ recvPc = [t \in Transports |->
                     IF TransportEnabled(cfg, t) THEN "read" ELSE "off"]
    /\ held = [t \in Transports |-> NoCommand]
    /\ tclosed = [t \in Transports |-> FALSE]
    /\ nRead = 0
    /\ buffers = EmptyMap
    /\ done = FALSE
    /\ trace = <<>>

QueryNext ==
    \/ \E t \in Transports, d \in QueryDatagrams : ReadPacket(t, d)
    \/ \E t \in Transports : Handoff(t)
    \/ QueryValidate
    \/ \E env \in Envs : QueryAnswer(env)
    \/ \E written \in BOOLEAN : QuerySendUnicast(written)
    \/ \E written \in BOOLEAN : QuerySendMulticast(written)

SpecQuery == QueryInit /\ [][QueryNext]_vars

(***************************************************************************)
(* Ordering: the responder is up with both address families, and queries   *)
(* arrive on both.                                                         *)
(***************************************************************************)
\* a query with a unicast-request question and a multicast question, and a
\* legacy query with one question
OrderDatagrams ==
    {Datagram(Port, TRUE, QueryOf(<<SetUnicastResponse(QInstance), QTypeEnum>>)),
     Datagram(LegacyPort, TRUE, QueryOf(<<QInstanceTXT>>))}

OrderInit ==
    /\ domains = RegistryOf(RunInstances).domains
    /\ answerers = RegistryOf(RunInstances).answerers
    /\ regPanic = FALSE
    /\ lastOp = [op |-> "none"]
    /\ call = NoCall
    /\ OtherIdle
    /\ cfg \in {c \in Configs : ~c.disableIPv4 /\ ~c.disableIPv6}
    /\ cancelled = FALSE
    /\ ctxDone = FALSE
    /\ firstErr = NoError
    /\ runResult = "running"
    /\ mainPc = "select"
    /\ cmd = NoCommand
    /\ qi = 0
    /\ uRes = NoFrame
    /\ mRes = NoFrame
    /\ recvPc = [t \in Transports |-> "read"]
    /\ held = [t \in Transports |-> NoCommand]
    /\ tclosed = [t \in Transports |-> FALSE]
    /\ nRead = 0
    /\ buffers = EmptyMap
    /\ done = FALSE
    /\ trace = <<>>

OrderNext ==
    \/ \E t \in Transports, d \in OrderDatagrams : ReadPacket(t, d)
    \/ \E t \in Transports : Handoff(t)
    \/ QueryValidate
    \/ \E env \in Envs : QueryAnswer(env)
    \/ \E written \in BOOLEAN : QuerySendUnicast(written)
    \/ \E written \in BOOLEAN : QuerySendMulticast(written)

SpecOrder == OrderInit /\ [][OrderNext]_vars

\* The steps of the program are taken when they can be: tasks are scheduled,
\* timers fire, a select with a ready case proceeds.  The arrival of a
\* datagram, a read fault and the caller's cancellation are left to the
\* environment.
RunFairness ==
    /\ WF_vars(RunStart)
    /\ WF_vars(RunReturn)
    /\ WF_vars(SleepElapse \/ MainCancel)
    /\ WF_vars(MainCancel)
    /\ WF_vars(HandleResponse)
    /\ WF_vars(QueryValidate)
    /\ WF_vars(\E env \in Envs : QueryAnswer(env))
    /\ WF_vars(\E written \in BOOLEAN : QuerySendUnicast(written))
    /\ WF_vars(\E written \in BOOLEAN : QuerySendMulticast(written))
    /\ \A t \in Transports :
          /\ WF_vars(Listen(t))
          /\ WF_vars(CloseOnCancel(t))
          /\ WF_vars(ReadClosed(t))
          /\ WF_vars(HandoffCancel(t) \/ Handoff(t))

SpecRunFair == RunInit /\ [][RunNext]_vars /\ RunFairness


(***************************************************************************)
(* Browsing: the responder is up with one address family and receives      *)
(* one-question PTR queries for the instances of a service, over several   *)
(* registries.                                                             *)
(***************************************************************************)
\* the registry after the calls that registered RunInstances and a call
\* that removed the second of them
RegistryAfterRemove ==
    LET r == RegistryOf(RunInstances)
        i == RunInstances[2]
        n == RemoveInstanceResult(r.domains, r.answerers, i.Name, i.ServiceType,
                                  i.Domain)
    IN  [domains |-> n.domains, answerers |-> n.answerers]

BrowseRegistries ==
    {RegistryOf(RunInstances), RegistryOf(SubSeq(RunInstances, 1, 2)),
     RegistryAfterRemove}

\* browse queries from port 5353 without the unicast-request bit, for a
\* service with up to two instances and for a service with up to one
BrowseDatagrams ==
    {Datagram(Port, TRUE, QueryOf(<<QInstanceEnum>>)),
     Datagram(Port, TRUE,
              QueryOf(<<NewQuestion(InstanceEnumDomain(TypeP, DomL), "PTR")>>))}

BrowseInit ==
    /\ \E r \in BrowseRegistries :
           domains = r.domains /\ answerers = r.answerers
    /\ regPanic = FALSE
    /\ lastOp = [op |-> "none"]
    /\ call = NoCall
    /\ OtherIdle
    /\ cfg \in {c \in Configs : c.logger /\ c.disableIPv4 # c.disableIPv6}
    /\ cancelled = FALSE
    /\ ctxDone = FALSE
    /\ firstErr = NoError
    /\ runResult = "running"
    /\ mainPc = "select"
    /\ cmd = NoCommand
    /\ qi = 0
    /\ uRes = NoFrame
    /\ mRes = NoFrame
    /\ recvPc = [t \in Transports |->
                     IF TransportEnabled(cfg, t) THEN "read" ELSE "off"]
    /\ held = [t \in Transports |-> NoCommand]
    /\ tclosed = [t \in Transports |-> FALSE]
    /\ nRead = 0
    /\ buffers = EmptyMap
    /\ done = FALSE
    /\ trace = <<>>

BrowseNext ==
    \/ \E t \in Transports, d \in BrowseDatagrams : ReadPacket(t, d)
    \/ \E t \in Transports : Handoff(t)
    \/ QueryValidate
    \/ \E env \in Envs : QueryAnswer(env)
    \/ \E written \in BOOLEAN : QuerySendUnicast(written)
    \/ \E written \in BOOLEAN : QuerySendMulticast(written)

SpecBrowse == BrowseInit /\ [][BrowseNext]_vars

(***************************************************************************)
(* Frames: the responder is up with both address families; queries with    *)
(* any header flags arrive on the responder's interface and on another     *)
(* interface of the host.                                                  *)
(***************************************************************************)
\* the question q with the 16-bit class c
WithQclass(q, c) == [q EXCEPT !.Qclass = c]

\* the class with every bit but the top bit set, and with all 16 bits set
LowClassBits == UnicastResponseBit - 1

AllClassBits == UnicastResponseBit + LowClassBits

\* a query with the ID id, the header flags of flags and the questions qs
FlaggedQuery(id, flags, qs) == WithFlags(NewMessage(id, FALSE, 0, 0, qs), flags)

\* The queries: for an instance on this host, without flags; the same with
\* a unicast-request bit and every flag, on the other interface; a legacy
\* enumeration with TC, RD and CD; a legacy query for a remote host with RA,
\* Z and AD; a query without questions; a query with two questions whose
\* classes have all bits set and all but the top bit set; a query for the
\* address of this host on the other interface; a type enumeration, the
\* address of this host and an instance enumeration in one query.
FrameDatagrams ==
    {DatagramOn(ResponderInterface, Port, TRUE,
                FlaggedQuery(7, {}, <<QInstance>>)),
     DatagramOn(OtherInterface, Port, TRUE,
                FlaggedQuery(7, HeaderFlags,
                             <<SetUnicastResponse(QInstance), QTypeEnum>>)),
     DatagramOn(OtherInterface, LegacyPort, TRUE,
                FlaggedQuery(9, {"TC", "RD", "CD"}, <<QInstanceEnum>>)),
     DatagramOn(ResponderInterface, LegacyPort, TRUE,
                FlaggedQuery(0, {"RA", "Z", "AD"}, <<QTargetRemote>>)),
     DatagramOn(OtherInterface, Port, TRUE, FlaggedQuery(9, {"AA"}, <<>>)),
     DatagramOn(ResponderInterface, Port, TRUE,
                FlaggedQuery(9, {}, <<WithQclass(QInstanceTXT, AllClassBits),
                                      WithQclass(QTypeEnum, LowClassBits)>>)),
     DatagramOn(OtherInterface, Port, TRUE,
                FlaggedQuery(7, {"RD"}, <<QTargetLocal>>)),
     DatagramOn(ResponderInterface, Port, TRUE,
                FlaggedQuery(5, {}, <<QTypeEnum, QTargetLocal, QInstanceEnum>>))}

FrameInit ==
    /\ domains = RegistryOf(RunInstances).domains
    /\ answerers = RegistryOf(RunInstances).answerers
    /\ regPanic = FALSE
    /\ lastOp = [op |-> "none"]
    /\ call = NoCall
    /\ OtherIdle
    /\ cfg \in {c \in Configs : c.logger /\ ~c.disableIPv4 /\ ~c.disableIPv6}
    /\ cancelled = FALSE
    /\ ctxDone = FALSE
    /\ firstErr = NoError
    /\ runResult = "running"
    /\ mainPc = "select"
    /\ cmd = NoCommand
    /\ qi = 0
    /\ uRes = NoFrame
    /\ mRes = NoFrame
    /\ recvPc = [t \in Transports |-> "read"]
    /\ held = [t \in Transports |-> NoCommand]
    /\ tclosed = [t \in Transports |-> FALSE]
    /\ nRead = 0
    /\ buffers = EmptyMap
    /\ done = FALSE
    /\ trace = <<>>

FrameNext ==
    \/ \E t \in Transports, d \in FrameDatagrams : ReadPacket(t, d)
    \/ \E t \in Transports : Handoff(t)
    \/ QueryValidate
    \/ \E env \in Envs : QueryAnswer(env)
    \/ \E written \in BOOLEAN : QuerySendUnicast(written)
    \/ \E written \in BOOLEAN : QuerySendMulticast(written)

SpecFrames == FrameInit /\ [][FrameNext]_vars

(***************************************************************************)
(* Library functions called on their own: the start-up delay (package      *)
(* responder), and the parsing, splitting and joining of names (packages   *)
(* names and dnssd).  call keeps the function, its arguments and what it   *)
(* returned.                                                               *)
(***************************************************************************)
\* the longest string given to a name function
MaxNameLen == 4

\* the characters of the strings: a letter, the dot and the backslash
NameChars == {"a", Dot, "\\"}

NameStrings == UNION {[1..n -> NameChars] : n \in 0..MaxNameLen}

\* the argument of randT in Responder.run: 250 * time.Millisecond
StartupDelay == 250

\* rand.Int63n(n): any integer of [0, n)
Int63n(n) == 0..(n - 1)

\* randTBetween, for the number rnd that rand.Int63n(max - min) returned
randTBetween(min, max, rnd) == rnd + max

\* randT, for the number rnd that rand.Int63n returned
randT(d, rnd) == randTBetween(0, d, rnd)

\* the durations given to randT
Durations == {1, 2, StartupDelay}

\* a call of randT
RandTCall(d, rnd) ==
    /\ call' = [fn |-> "randT", d |-> d, rnd |-> rnd, res |-> randT(d, rnd)]
    /\ UNCHANGED <<regVars, respVars, otherVars>>

\* a call of names.Parse
ParseCall(s) ==
    /\ call' = [fn |-> "Parse", s |-> s, ok |-> Parse(s).ok,
                name |-> Parse(s).name]
    /\ UNCHANGED <<regVars, respVars, otherVars>>

\* a dnssd.ServiceType as a names.Name
ServiceType(s) == [kind |-> "ServiceType", s |-> s]

\* Validate of any implementation of names.Name
AnyNameValidate(n) ==
    IF n.kind = "ServiceType" THEN ServiceTypeValidate(n.s)
    ELSE NameValidate(n)

\* what a function returns when it panics
Panics == [panic |-> TRUE]

\* Label.Split
LabelSplit(s) == [panic |-> FALSE, head |-> s, tail |-> <<>>]

\* FQDN.Split: String panics for an invalid name; the head is s[:i] and the
\* tail s[i:], where i is the index of the first dot
FQDNSplit(s) ==
    IF ~FQDNValidate(s) THEN Panics
    ELSE LET i == IndexDot(s)
         IN  [panic |-> FALSE,
              head |-> SubSeq(s, 1, i - 1),
              tail |-> IF i # Len(s) THEN <<FQDN(SubSeq(s, i, Len(s)))>>
                       ELSE <<>>]

\* UDN.Split: s[:i] is taken before i is compared with -1, and panics for
\* a name without a dot
UDNSplit(s) ==
    IF ~UDNValidate(s) THEN Panics
    ELSE LET i == IndexDot(s)
         IN  IF i = 0 THEN Panics
             ELSE [panic |-> FALSE,
                   head |-> SubSeq(s, 1, i - 1),
                   tail |-> <<UDN(SubSeq(s, i, Len(s)))>>]

\* ServiceType.Split
ServiceTypeSplit(s) ==
    IF ~ServiceTypeValidate(s) THEN Panics
    ELSE LET i == IndexDot(s)
         IN  IF i = 0 THEN Panics
             ELSE [panic |-> FALSE,
                   head |-> SubSeq(s, 1, i - 1),
                   tail |-> <<UDN(SubSeq(s, i, Len(s)))>>]

\* Name.Split, dispatched on the dynamic type
Split(n) ==
    CASE n.kind = "Label" -> LabelSplit(n.s)
      [] n.kind = "FQDN" -> FQDNSplit(n.s)
      [] n.kind = "UDN" -> UDNSplit(n.s)
      [] n.kind = "ServiceType" -> ServiceTypeSplit(n.s)

\* Label.Join, UDN.Join and ServiceType.Join: MustParse(n.String() + "." +
\* s.String()), where String panics for an invalid name; FQDN.Join panics
Join(n, s) ==
    IF n.kind = "FQDN" \/ ~AnyNameValidate(n) \/ ~AnyNameValidate(s)
    THEN Panics
    ELSE LET p == Parse(n.s \o <<Dot>> \o s.s)
         IN  IF p.ok THEN [panic |-> FALSE, name |-> p.name] ELSE Panics

\* the valid names of every kind
ValidNames ==
    {n \in {Label(s) : s \in NameStrings} \cup {UDN(s) : s \in NameStrings}
           \cup {FQDN(s) : s \in NameStrings}
           \cup {ServiceType(s) : s \in NameStrings} : AnyNameValidate(n)}

\* a call of Split on a valid name, and of Join on what it returned
SplitCall(n) ==
    /\ call' = [fn |-> "Split", n |-> n, res |-> Split(n),
                joined |-> IF Split(n).panic \/ Split(n).tail = <<>>
                           THEN <<>>
                           ELSE <<Join(Label(Split(n).head),
                                       Split(n).tail[1])>>]
    /\ UNCHANGED <<regVars, respVars, otherVars>>

\* a call of Instance.FQDN for an instance with the name n
InstanceFQDNCall(n) ==
    LET i == NewInstance(n, TypeH, DomL, Label(<<"h">>), 80, 0)
    IN  /\ call' = [fn |-> "Instance.FQDN", n |-> n,
                    panic |-> InstanceFQDNPanics(i),
                    res |-> IF InstanceFQDNPanics(i) THEN <<>>
                            ELSE InstanceFQDN(i)]
        /\ UNCHANGED <<regVars, respVars, otherVars>>

(***************************************************************************)
(* package resolver: the multicast wait carried by a context.  A context   *)
(* is the chain of the values attached to it, the innermost last.          *)
(***************************************************************************)
\* context.Background()
Background == <<>>

\* context.WithValue(parent, key, val)
WithValue(parent, key, val) == Append(parent, [key |-> key, val |-> val])

\* ctx.Value(key): the value attached last under key, ok FALSE (Go's nil,
\* whose type assertion fails) when there is none
Value(ctx, key) ==
    IF \E k \in 1..Len(ctx) : ctx[k].key = key
    THEN LET k == CHOOSE j \in 1..Len(ctx) :
                      /\ ctx[j].key = key
                      /\ \A h \in (j+1)..Len(ctx) : ctx[h].key # key
         IN  [ok |-> TRUE, val |-> ctx[k].val]
    ELSE [ok |-> FALSE, val |-> 0]

\* A variant of WithMulticastWait that always attaches w (used to test
\* C33).
WithMulticastWaitAlways(parent, w) == WithValue(parent, "multicastWaitKey", w)

\* resolver.WithMulticastWait
WithMulticastWait(parent, w) ==
    LET e == Value(parent, "multicastWaitKey")
    IN  IF e.ok /\ e.val > w
        THEN parent
        ELSE WithValue(parent, "multicastWaitKey", w)

\* resolver.MulticastWait
MulticastWait(ctx) ==
    LET e == Value(ctx, "multicastWaitKey")
    IN  [w |-> e.val, ok |-> e.ok]

\* the waits given: those of the tests, zero and a negative duration
Waits == {-1, 0, 5, 123}

\* how deep the contexts given as parent are nested
MaxNesting == 2

\* the contexts made from Background by at most n calls, each one
\* WithMulticastWait or a WithValue under a key of another package
RECURSIVE ContextsOfDepth(_)
ContextsOfDepth(n) ==
    IF n = 0 THEN {Background}
    ELSE LET C == ContextsOfDepth(n - 1)
         IN  C \cup {WithMulticastWait(c, w) : c \in C, w \in Waits}
               \cup {WithValue(c, "otherKey", 1) : c \in C}

\* a call of WithMulticastWait
WithMulticastWaitCall(parent, w) ==
    /\ call' = [fn |-> "WithMulticastWait", parent |-> parent, w |-> w,
                ctx |-> WithMulticastWait(parent, w)]
    /\ UNCHANGED <<regVars, respVars, otherVars>>

(***************************************************************************)
(* package resolver: sortSRV.  A list of SRV records is a sequence of      *)
(* records; positions are counted from 1.                                  *)
(***************************************************************************)
\* the less function given to sort.Slice
SRVLess(a, b) ==
    IF a.Priority = b.Priority THEN a.Weight < b.Weight
    ELSE a.Priority < b.Priority

\* insert rec in the sorted list s, before the first record it is less than
RECURSIVE SRVInsert(_, _)
SRVInsert(s, rec) ==
    IF s = <<>> THEN <<rec>>
    ELSE IF SRVLess(rec, Head(s)) THEN <<rec>> \o s
    ELSE <<Head(s)>> \o SRVInsert(Tail(s), rec)

\* sort.Slice(s, less): the records in the order of less
RECURSIVE SRVSort(_)
SRVSort(s) ==
    IF s = <<>> THEN <<>>
    ELSE SRVInsert(SRVSort(Tail(s)), Head(s))

\* s with the records at the positions i and j exchanged
Swap(s, i, j) == [s EXCEPT ![i] = s[j], ![j] = s[i]]

\* the sum of the weights of the records of s
RECURSIVE WeightSum(_)
WeightSum(s) == IF s = <<>> THEN 0 ELSE Head(s).Weight + WeightSum(Tail(s))

\* shuffleSRV: the loop over s[i:] for the random number r, from the j-th
\* record of s[i:] on (j counted from 0 as in the code, i from 1).  The
\* record selected is exchanged with s[j], the loop goes on after it.
RECURSIVE ShuffleInner(_, _, _, _, _, _)
ShuffleInner(s, i, j, a, sum, r) ==
    IF i + j > Len(s) THEN [s |-> s, sum |-> sum]
    ELSE LET rec == s[i + j]
             a1 == a + rec.Weight
         IN  IF a1 >= r
             THEN ShuffleInner(Swap(s, i, j + 1), i, j + 1, a1,
                               sum - rec.Weight, r)
             ELSE ShuffleInner(s, i, j + 1, a1, sum, r)

\* shuffleSRV from the i-th iteration of its outer loop on: the outcomes
\* for every random number rand.Intn(sum) may return.  rand.Intn panics
\* when sum is not positive.
RECURSIVE ShuffleFrom(_, _, _)
ShuffleFrom(s, i, sum) ==
    IF i > Len(s) THEN {[s |-> s, panic |-> FALSE]}
    ELSE IF sum <= 0 THEN {[s |-> s, panic |-> TRUE]}
    ELSE UNION {LET st == ShuffleInner(s, i, 0, 0, sum, r)
                IN  ShuffleFrom(st.s, i + 1, st.sum) : r \in 0..(sum - 1)}

\* shuffleSRV
shuffleSRV(s) ==
    IF WeightSum(s) = 0 THEN {[s |-> s, panic |-> FALSE]}
    ELSE ShuffleFrom(s, 1, WeightSum(s))

\* the length of the run of records with the priority of the first one at
\* the head of s
RECURSIVE GroupLen(_)
GroupLen(s) ==
    IF Len(s) <= 1 THEN Len(s)
    ELSE IF s[2].Priority = s[1].Priority THEN 1 + GroupLen(Tail(s))
    ELSE 1

\* sortSRV after the sort: each run of records of one priority is
\* shuffled in turn; a panic ends the call
RECURSIVE ShuffleGroups(_)
ShuffleGroups(s) ==
    IF s = <<>> THEN {[s |-> <<>>, panic |-> FALSE]}
    ELSE LET n == GroupLen(s)
             rest == SubSeq(s, n + 1, Len(s))
         IN  UNION {IF g.panic THEN {[s |-> g.s \o rest, panic |-> TRUE]}
                    ELSE {[s |-> g.s \o t.s, panic |-> t.panic] :
                              t \in ShuffleGroups(rest)} :
                        g \in shuffleSRV(SubSeq(s, 1, n))}

\* sortSRV: the lists it may leave, and whether it panicked
sortSRV(s) ==
    IF Len(s) <= 1 THEN {[s |-> s, panic |-> FALSE]}
    ELSE ShuffleGroups(SRVSort(s))

\* the longest list of SRV records given
MaxSRV == 3

\* the SRV records given: two priorities, weights zero and not
SRVRecords == [Priority : {1, 2}, Weight : {0, 1, 2}]

SRVLists == UNION {[1..n -> SRVRecords] : n \in 0..MaxSRV}

\* a call of sortSRV
SortSRVCall(s, out) ==
    /\ call' = [fn |-> "sortSRV", in |-> s, out |-> out.s, panic |-> out.panic]
    /\ UNCHANGED <<regVars, respVars, otherVars>>

LibInit == RegInit

LibNext ==
    \/ \E d \in Durations : \E rnd \in Int63n(d) : RandTCall(d, rnd)
    \/ \E s \in NameStrings : ParseCall(s)
    \/ \E n \in ValidNames : SplitCall(n)
    \/ \E n \in NameStrings \ {<<>>} : InstanceFQDNCall(n)
    \/ \E c \in ContextsOfDepth(MaxNesting), w \in Waits :
           WithMulticastWaitCall(c, w)
    \/ \E s \in SRVLists : \E out \in sortSRV(s) : SortSRVCall(s, out)

SpecLib == LibInit /\ [][LibNext]_vars

(***************************************************************************)
(* The Answerer under concurrent calls.  Answerer.m is a sync.RWMutex: a   *)
(* writer that has called Lock keeps new readers out until it has held     *)
(* and released the lock, and waits for the readers that hold it to        *)
(* leave; Unlock lets in all the readers that were kept out.               *)
(***************************************************************************)
\* A variant of the lock that lets readers in while a writer holds or
\* waits for it (used to test the locking side of C34).
RLockAdmitsAlways(m) == TRUE

\* RWMutex.RLock returns at once unless a writer holds or waits for the lock
RLockAdmits(m) == ~m.pending

\* the name-specific answerer's Answer, for the answerer an found in the
\* index.  An enumerator iterates the maps of its Domain or Service object;
\* obj is that object as it was when the index was read, which is what the
\* enumerator still refers to when the tree no longer holds it.
NameAnswer(doms, an, obj, q, env, ord) ==
    CASE an.kind = "typeEnum" ->
             typeEnumAnswer(IF Has(doms, an.domain) THEN doms[an.domain]
                            ELSE obj, q, ord, EmptyAnswer)
      [] an.kind = "instanceEnum" ->
             instanceEnumAnswer(
                 IF Has(doms, an.domain) /\ Has(doms[an.domain].Services, an.type)
                 THEN doms[an.domain].Services[an.type] ELSE obj,
                 q, env, ord, EmptyAnswer)
      [] an.kind = "instance" -> instanceAnswer(an.inst, q, env, EmptyAnswer)
      [] an.kind = "target" -> targetAnswer(an.inst, q, env, EmptyAnswer)

\* the Domain or Service object an enumerator refers to, <<>> for the
\* other answerers
EnumObject(doms, an) ==
    CASE an.kind = "typeEnum" -> doms[an.domain]
      [] an.kind = "instanceEnum" -> doms[an.domain].Services[an.type]
      [] OTHER -> <<>>

\* the keys of the map that the answerer an iterates over
EnumKeys(doms, an, obj) ==
    CASE an.kind = "typeEnum" ->
             DOMAIN (IF Has(doms, an.domain) THEN doms[an.domain]
                     ELSE obj).Services
      [] an.kind = "instanceEnum" ->
             DOMAIN (IF Has(doms, an.domain)
                        /\ Has(doms[an.domain].Services, an.type)
                     THEN doms[an.domain].Services[an.type] ELSE obj).Instances
      [] OTHER -> {}

\* Answerer.Answer: an.m.RLock().  The goroutine goes on when the lock
\* admits it and is blocked otherwise.  snap keeps the tree and the index
\* as they are when the lock is taken (history).
AnswerRLock(r, q, env) ==
    /\ callers[r].pc = "idle"
    /\ IF RLockAdmits(mu)
       THEN /\ mu' = [mu EXCEPT !.readers = @ \cup {r}]
            /\ callers' = [callers EXCEPT ![r] =
                   [pc |-> "lookup", q |-> q, env |-> env,
                    snap |-> [domains |-> domains, answerers |-> answerers]]]
       ELSE /\ mu' = [mu EXCEPT !.blocked = @ \cup {r}]
            /\ callers' = [callers EXCEPT ![r] =
                   [pc |-> "blocked", q |-> q, env |-> env]]
    /\ UNCHANGED <<regVars, respVars, call, exec, rq, arch>>

\* Answerer.Answer: the lookup an.answerers[names.FQDN(q.Question.Name)]
AnswerLookup(r) ==
    /\ callers[r].pc = "lookup"
    /\ LET c == callers[r]
           found == Has(answerers, c.q.Name)
       IN  callers' = [callers EXCEPT ![r] =
               [pc |-> "answer", q |-> c.q, env |-> c.env, snap |-> c.snap,
                found |-> found,
                an |-> IF found THEN answerers[c.q.Name] ELSE <<>>,
                obj |-> IF found THEN EnumObject(domains, answerers[c.q.Name])
                        ELSE <<>>]]
    /\ UNCHANGED <<regVars, respVars, call, mu, exec, rq, arch>>

\* Answerer.Answer: v.Answer(ctx, q, a) for the answerer found, nothing
\* when there is none
AnswerName(r) ==
    /\ callers[r].pc = "answer"
    /\ LET c == callers[r]
       IN  \E ord \in Orders(IF c.found THEN EnumKeys(domains, c.an, c.obj)
                             ELSE {}) :
               callers' = [callers EXCEPT ![r] =
                   [pc |-> "runlock", q |-> c.q, env |-> c.env,
                    snap |-> c.snap, ord |-> ord,
                    res |-> IF c.found
                            THEN NameAnswer(domains, c.an, c.obj, c.q, c.env, ord)
                            ELSE [err |-> FALSE, a |-> EmptyAnswer]]]
    /\ UNCHANGED <<regVars, respVars, call, mu, exec, rq, arch>>

\* Answerer.Answer: the deferred an.m.RUnlock(), and the return
AnswerRUnlock(r) ==
    /\ callers[r].pc = "runlock"
    /\ mu' = [mu EXCEPT !.readers = @ \ {r}]
    /\ callers' = [callers EXCEPT ![r] = [pc |-> "idle"]]
    /\ UNCHANGED <<regVars, respVars, call, exec, rq, arch>>

\* AddInstance or RemoveInstance: an.m.Lock().  The writer takes the
\* inner mutex and announces itself to the readers; it has the lock at
\* once when no reader holds it, and waits for the readers otherwise.  pre
\* keeps the tree and the index as the writer finds them.
WriterLock(w, op) ==
    /\ callers[w].pc = "idle"
    /\ mu.w = "none"
    /\ mu' = [mu EXCEPT !.w = w, !.pending = TRUE]
    /\ callers' = [callers EXCEPT ![w] =
           IF mu.readers = {}
           THEN [pc |-> "tree", op |-> op,
                 pre |-> [domains |-> domains, answerers |-> answerers]]
           ELSE [pc |-> "drain", op |-> op]]
    /\ UNCHANGED <<regVars, respVars, call, exec, rq, arch>>

\* an.m.Lock() returns once the readers that held the lock have left
WriterAcquire(w) ==
    /\ callers[w].pc = "drain"
    /\ mu.readers = {}
    /\ callers' = [callers EXCEPT ![w] =
           [pc |-> "tree", op |-> callers[w].op,
            pre |-> [domains |-> domains, answerers |-> answerers]]]
    /\ UNCHANGED <<regVars, respVars, call, mu, exec, rq, arch>>

\* Answerer.AddInstance up to s.Instances[i.Name] = i: the domain and the
\* service are made if need be, with their enumerators, the target entry of
\* a replaced instance is deleted, the instance is put in the tree
AddInstanceTree(doms, ans, i) ==
    LET hadD == Has(doms, i.Domain)
        d0 == IF hadD THEN doms[i.Domain]
              ELSE [Name |-> i.Domain, Services |-> EmptyMap]
        ans1 == IF hadD THEN ans
                ELSE Put(ans, TypeEnumDomain(d0.Name), typeEnumAnswerer(d0))
        hadS == Has(d0.Services, i.ServiceType)
        s0 == IF hadS THEN d0.Services[i.ServiceType]
              ELSE [Type |-> i.ServiceType, Domain |-> i.Domain,
                    Instances |-> EmptyMap]
        ans2 == IF hadS THEN ans1
                ELSE Put(ans1, InstanceEnumDomain(s0.Type, s0.Domain),
                         instanceEnumAnswerer(s0))
        hadI == Has(s0.Instances, i.Name)
        ans3 == IF hadI THEN Del(ans2, TargetFQDN(s0.Instances[i.Name]))
                ELSE ans2
        s1 == [s0 EXCEPT !.Instances = Put(@, i.Name, i)]
        d1 == [d0 EXCEPT !.Services = Put(@, s1.Type, s1)]
    IN  [domains |-> Put(doms, d1.Name, d1), answerers |-> ans3]

\* Answerer.RemoveInstance up to delete(s.Instances, i.Name); nothing is
\* written when the instance is not registered
RemoveInstanceTree(doms, ans, instance, service, domain) ==
    IF ~Registered(doms, instance, service, domain)
    THEN [domains |-> doms, answerers |-> ans]
    ELSE LET d == doms[domain]
             s == d.Services[service]
             s1 == [s EXCEPT !.Instances = Del(@, instance)]
         IN  [domains |-> Put(doms, domain,
                              [d EXCEPT !.Services = Put(@, service, s1)]),
              answerers |-> ans]

\* the first half of the writer's call: the tree is written
WriterWriteTree(w) ==
    /\ callers[w].pc = "tree"
    /\ LET op == callers[w].op
           r == IF op.op = "add"
                THEN AddInstanceTree(domains, answerers, op.inst)
                ELSE RemoveInstanceTree(domains, answerers, op.name, op.type,
                                        op.domain)
       IN  /\ domains' = r.domains
           /\ answerers' = r.answerers
    /\ callers' = [callers EXCEPT ![w].pc = "index"]
    /\ UNCHANGED <<regPanic, lastOp, respVars, call, mu, exec, rq, arch>>

\* the second half of the writer's call: the index entries of the instance
\* are written or deleted, a service or domain left empty is dropped.  The
\* tree and the index are then what the whole call makes of the state the
\* writer found.
WriterWriteIndex(w) ==
    /\ callers[w].pc = "index"
    /\ LET op == callers[w].op
           pre == callers[w].pre
           r == IF op.op = "add"
                THEN AddInstanceResult(pre.domains, pre.answerers, op.inst)
                ELSE RemoveInstanceResult(pre.domains, pre.answerers, op.name,
                                          op.type, op.domain)
       IN  /\ domains' = r.domains
           /\ answerers' = r.answerers
    /\ callers' = [callers EXCEPT ![w] = [pc |-> "unlock", op |-> callers[w].op]]
    /\ UNCHANGED <<regPanic, lastOp, respVars, call, mu, exec, rq, arch>>

\* the deferred an.m.Unlock(): the readers that were kept out get the lock,
\* then the inner mutex is released
WriterUnlock(w) ==
    /\ callers[w].pc = "unlock"
    /\ mu' = [w |-> "none", pending |-> FALSE, readers |-> mu.blocked,
              blocked |-> {}]
    /\ callers' = [c \in DOMAIN callers |->
           IF c = w THEN [pc |-> "idle"]
           ELSE IF c \in mu.blocked
           THEN [pc |-> "lookup", q |-> callers[c].q, env |-> callers[c].env,
                 snap |-> [domains |-> domains, answerers |-> answerers]]
           ELSE callers[c]]
    /\ UNCHANGED <<regVars, respVars, call, exec, rq, arch>>

\* two instances of one service on one host
LockInstances ==
    {NewInstance(NameA, TypeH, DomL, Label(<<"h">>), 80, 0),
     NewInstance(NameB, TypeH, DomL, Label(<<"h">>), 81, 0)}

\* the calls the writers make
LockOps ==
    {[op |-> "add", inst |-> i] : i \in LockInstances}
        \cup {[op |-> "remove", name |-> i.Name, type |-> i.ServiceType,
               domain |-> i.Domain] : i \in LockInstances}

\* the questions the readers ask: the address of the host, the instances
\* of the service, the service types of the domain
LockQuestions ==
    {NewQuestion(<<"h", ".", "l", ".">>, "A"),
     NewQuestion(InstanceEnumDomain(TypeH, DomL), "PTR"),
     NewQuestion(TypeEnumDomain(DomL), "PTR")}

\* what the host tells during the calls
LockEnv == [local |-> Resolved(InterfaceAddrs(ResponderInterface)),
            remote |-> Failed]

LockInit == RegInit

LockNext ==
    \/ \E r \in Readers, q \in LockQuestions : AnswerRLock(r, q, LockEnv)
    \/ \E r \in Readers : AnswerLookup(r)
    \/ \E r \in Readers : AnswerName(r)
    \/ \E r \in Readers : AnswerRUnlock(r)
    \/ \E w \in Writers, op \in LockOps : WriterLock(w, op)
    \/ \E w \in Writers : WriterAcquire(w)
    \/ \E w \in Writers : WriterWriteTree(w)
    \/ \E w \in Writers : WriterWriteIndex(w)
    \/ \E w \in Writers : WriterUnlock(w)

SpecLock == LockInit /\ [][LockNext]_vars

(***************************************************************************)
(* Responder.execute: goroutines that give a command to the main loop      *)
(* over r.commands, the channel the receive tasks use.                     *)
(***************************************************************************)
\* a goroutine calls r.execute(ctx, c) and waits in its select
ExecuteCall(c) ==
    /\ Alive
    /\ exec[c].pc = "idle"
    /\ exec' = [exec EXCEPT ![c] = [pc |-> "select", ctxDone |-> FALSE]]
    /\ UNCHANGED <<regVars, respVars, call, mu, callers, rq, arch>>

\* the context given to execute is cancelled while the goroutine waits
ExecuteCancel(c) ==
    /\ Alive
    /\ exec[c].pc = "select"
    /\ ~exec[c].ctxDone
    /\ exec' = [exec EXCEPT ![c].ctxDone = TRUE]
    /\ UNCHANGED <<regVars, respVars, call, mu, callers, rq, arch>>

\* case <-ctx.Done(): return ctx.Err()
ExecuteCtxDone(c) ==
    /\ Alive
    /\ exec[c].pc = "select"
    /\ exec[c].ctxDone
    /\ exec' = [exec EXCEPT ![c] = [pc |-> "returned",
                                    res |-> "context canceled"]]
    /\ UNCHANGED <<regVars, respVars, call, mu, callers, rq, arch>>

\* case <-r.done: return errors.New("server is no longer running")
ExecuteDone(c) ==
    /\ Alive
    /\ exec[c].pc = "select"
    /\ done
    /\ exec' = [exec EXCEPT ![c] = [pc |-> "returned",
                                    res |-> "server is no longer running"]]
    /\ UNCHANGED <<regVars, respVars, call, mu, callers, rq, arch>>

\* case r.commands <- c: return nil, together with the main loop's
\* c := <-r.commands; the command is one whose Execute does nothing
ExecuteSend(c) ==
    /\ Alive
    /\ exec[c].pc = "select"
    /\ mainPc = "select"
    /\ exec' = [exec EXCEPT ![c] = [pc |-> "returned", res |-> "nil"]]
    /\ cmd' = [kind |-> "given", id |-> 0, by |-> c]
    /\ mainPc' = "exec"
    /\ UNCHANGED <<regVars, call, mu, callers, rq, arch, buffers, cfg, cancelled,
                   ctxDone, firstErr, runResult, qi, uRes, mRes, recvPc, held,
                   tclosed, nRead, trace>>
    /\ DoneAfter

\* the main loop executes the command given: Execute returns nil
ExecuteGiven ==
    /\ Alive
    /\ mainPc = "exec"
    /\ cmd.kind = "given"
    /\ mainPc' = "select"
    /\ UNCHANGED <<regVars, call, otherVars, buffers, cfg, cancelled, ctxDone,
                   firstErr, runResult, cmd, qi, uRes, mRes, recvPc, held,
                   tclosed, nRead, trace>>
    /\ DoneAfter

\* The datagrams: a query with a non-zero OPCODE, whose rejection is
\* logged, and a response.
ExecDatagrams ==
    {Datagram(Port, TRUE, NewMessage(7, FALSE, 1, 0, <<QInstanceEnum>>)),
     Datagram(Port, TRUE, NewMessage(0, TRUE, 0, 0, <<>>))}

\* the state after New, with or without a logger, with IPv6 disabled
ExecInit ==
    /\ domains = RegistryOf(RunInstances).domains
    /\ answerers = RegistryOf(RunInstances).answerers
    /\ regPanic = FALSE
    /\ lastOp = [op |-> "none"]
    /\ call = NoCall
    /\ OtherIdle
    /\ cfg \in {c \in Configs : ~c.disableIPv4 /\ c.disableIPv6}
    /\ RespIdle

ExecNext ==
    \/ RunStart
    \/ RunReturn
    \/ Cancel
    \/ \E t \in Transports : Listen(t)
    \/ \E t \in Transports : CloseOnCancel(t)
    \/ \E t \in Transports, d \in ExecDatagrams : ReadPacket(t, d)
    \/ \E t \in Transports : ReadClosed(t)
    \/ \E t \in Transports : ReadFault(t)
    \/ \E t \in Transports : HandoffCancel(t)
    \/ SleepElapse
    \/ MainCancel
    \/ \E t \in Transports : Handoff(t)
    \/ HandleResponse
    \/ QueryValidate
    \/ \E c \in ExecCallers : ExecuteCall(c)
    \/ \E c \in ExecCallers : ExecuteCancel(c)
    \/ \E c \in ExecCallers : ExecuteCtxDone(c)
    \/ \E c \in ExecCallers : ExecuteDone(c)
    \/ \E c \in ExecCallers : ExecuteSend(c)
    \/ ExecuteGiven

\* A select with a ready case proceeds: a goroutine in execute whose
\* context is done, or that finds r.done closed, returns.  The main loop
\* and the tasks of Run are scheduled as in SpecRunFair.
ExecFairness ==
    /\ \A c \in ExecCallers : WF_vars(ExecuteCtxDone(c) \/ ExecuteDone(c))
    /\ WF_vars(RunStart)
    /\ WF_vars(RunReturn)
    /\ WF_vars(SleepElapse \/ MainCancel)
    /\ WF_vars(MainCancel)
    /\ WF_vars(HandleResponse)
    /\ WF_vars(QueryValidate)
    /\ WF_vars(ExecuteGiven)
    /\ \A t \in Transports :
          /\ WF_vars(Listen(t))
          /\ WF_vars(CloseOnCancel(t))
          /\ WF_vars(ReadClosed(t))
          /\ WF_vars(HandoffCancel(t) \/ Handoff(t))

SpecExecute == ExecInit /\ [][ExecNext]_vars /\ ExecFairness

(***************************************************************************)
(* dnssd.Resolver.query: every configured server is asked in a goroutine   *)
(* of its own; result is a channel with room for one response.             *)
(***************************************************************************)
\* conf.Servers
Servers == {"s1", "s2", "s3"}

\* what the response codes of the servers may be; SERVFAIL stands for the
\* codes that are neither Success nor NameError
Rcodes == {"Success", "NameError", "ServerFailure"}

\* What r.Client.ExchangeContext may return for the server s: a response,
\* or an error.  The error of an exchange that fails by itself is "i/o
\* timeout".  An exchange that is aborted because its context was cancelled
\* returns context.Canceled itself or an error of the network layer that
\* is not identical to it ("operation was canceled"); it may also have
\* completed or failed before it noticed.
ExchangeOutcomes(s, ctxCancelled) ==
    {[err |-> "nil", res |-> [from |-> s, Rcode |-> c]] : c \in Rcodes}
        \cup {[err |-> "i/o timeout"]}
        \cup (IF ctxCancelled
              THEN {[err |-> "context canceled"],
                    [err |-> "operation was canceled"]}
              ELSE {})

\* the call starts: the goroutines are started, nothing is in the channel
QueryStart ==
    /\ rq.pc = "idle"
    /\ rq' = [pc |-> "wait", ex |-> [s \in Servers |-> "running"],
              result |-> <<>>, cancelled |-> FALSE, gerr |-> "nil",
              errs |-> {}, arrived |-> <<>>]
    /\ UNCHANGED <<regVars, respVars, call, mu, callers, exec, arch>>

\* A variant of the goroutine that takes any error of an exchange whose
\* context is cancelled for the abort (used to test what holds of C40).
GoroutineErrorLenient(err, ctxCancelled) ==
    IF ctxCancelled THEN "nil" ELSE err

\* the goroutine's handling of the error err of its exchange: nil is
\* returned when the error is context.Canceled, the error otherwise
GoroutineError(err, ctxCancelled) ==
    IF err = "context canceled" THEN "nil" ELSE err

\* the goroutine of the server s: the exchange returns out, the goroutine
\* handles it and returns.  A Success or NameError response is put in the
\* channel when there is room, and the context is then cancelled; a
\* response that finds the channel full is dropped.  errgroup keeps the
\* first error a goroutine returns and cancels the context.  arrived keeps
\* the Success and NameError responses in the order of their arrival
\* (history), errs the errors the exchanges returned (history).
Exchange(s, out) ==
    /\ rq.pc = "wait"
    /\ rq.ex[s] = "running"
    /\ IF out.err # "nil"
       THEN LET e == GoroutineError(out.err, rq.cancelled)
            IN  rq' = [rq EXCEPT !.ex[s] = "returned",
                                 !.errs = @ \cup {out.err},
                                 !.gerr = IF @ = "nil" THEN e ELSE @,
                                 !.cancelled = @ \/ (e # "nil")]
       ELSE IF out.res.Rcode \in {"Success", "NameError"}
       THEN rq' = [rq EXCEPT !.ex[s] = "returned",
                             !.arrived = Append(@, out.res),
                             !.result = IF Len(@) < 1 THEN Append(@, out.res)
                                        ELSE @,
                             !.cancelled = @ \/ (Len(rq.result) < 1)]
       ELSE rq' = [rq EXCEPT !.ex[s] = "returned"]
    /\ UNCHANGED <<regVars, respVars, call, mu, callers, exec, arch>>

\* g.Wait() returns when every goroutine has returned: query returns the
\* group's error if there is one, and else what the closed channel gives,
\* the response in it or nil
QueryReturn ==
    /\ rq.pc = "wait"
    /\ \A s \in Servers : rq.ex[s] = "returned"
    /\ rq' = [pc |-> "returned", ex |-> rq.ex, result |-> rq.result,
              cancelled |-> rq.cancelled, gerr |-> rq.gerr, errs |-> rq.errs,
              arrived |-> rq.arrived,
              ret |-> IF rq.gerr # "nil"
                      THEN [res |-> <<>>, err |-> rq.gerr]
                      ELSE [res |-> rq.result, err |-> "nil"]]
    /\ UNCHANGED <<regVars, respVars, call, mu, callers, exec, arch>>

ResolverInit == RegInit

ResolverNext ==
    \/ QueryStart
    \/ \E s \in Servers :
           \E out \in ExchangeOutcomes(s, rq.pc = "wait" /\ rq.cancelled) :
               Exchange(s, out)
    \/ QueryReturn

SpecResolver == ResolverInit /\ [][ResolverNext]_vars
(***************************************************************************)
(* The registry's contents                                                 *)
(***************************************************************************)
\* the services in the tree, as <<domain, type>> paths
LiveServices(doms) ==
    {<<d, t>> : d \in DOMAIN doms, t \in SvcTypes} \cap
    UNION {{<<d, t>> : t \in DOMAIN doms[d].Services} : d \in DOMAIN doms}

\* the instances in the tree
LiveInstances(doms) ==
    UNION {UNION {{doms[d].Services[t].Instances[n] :
                      n \in DOMAIN doms[d].Services[t].Instances} :
                  t \in DOMAIN doms[d].Services} :
           d \in DOMAIN doms}

\* the index keys the instances of the tree call for
ExpectedKeys(doms) ==
    UNION {{InstanceEnumDomain(i.ServiceType, i.Domain), TypeEnumDomain(i.Domain),
            InstanceFQDN(i), TargetFQDN(i)} : i \in LiveInstances(doms)}

\* C1: after every registry call that returned, the index holds, for every
\* instance in the tree, its instance-enumeration name bound to the
\* enumerator of its service, its domain's type-enumeration name bound to the
\* enumerator of its domain, its FQDN bound to its instance answerer and its
\* target FQDN bound to a target answerer of an instance with that target,
\* and the index holds no other entry.
C1_IndexExact ==
    ~regPanic =>
        /\ \A i \in LiveInstances(domains) :
            /\ Has(answerers, InstanceEnumDomain(i.ServiceType, i.Domain))
            /\ answerers[InstanceEnumDomain(i.ServiceType, i.Domain)] =
                   [kind |-> "instanceEnum", domain |-> i.Domain,
                    type |-> i.ServiceType]
            /\ Has(answerers, TypeEnumDomain(i.Domain))
            /\ answerers[TypeEnumDomain(i.Domain)] =
                   [kind |-> "typeEnum", domain |-> i.Domain]
            /\ Has(answerers, InstanceFQDN(i))
            /\ answerers[InstanceFQDN(i)] = [kind |-> "instance", inst |-> i]
            /\ Has(answerers, TargetFQDN(i))
            /\ answerers[TargetFQDN(i)].kind = "target"
            /\ answerers[TargetFQDN(i)].inst \in LiveInstances(domains)
            /\ TargetFQDN(answerers[TargetFQDN(i)].inst) = TargetFQDN(i)
        /\ DOMAIN answerers \subseteq ExpectedKeys(domains)

\* C10: after every registry call that returned, no service of the tree is
\* without instances and no domain without services, every
\* instance-enumeration entry of the index is for a service of the tree and
\* every type-enumeration entry for a domain of the tree; and when the tree
\* holds no instance (as after registering one instance and removing it)
\* the tree and the index are empty.
C10_Pruned ==
    ~regPanic =>
        /\ \A d \in DOMAIN domains :
            /\ DOMAIN domains[d].Services # {}
            /\ \A t \in DOMAIN domains[d].Services :
                   DOMAIN domains[d].Services[t].Instances # {}
        /\ \A k \in DOMAIN answerers :
            /\ answerers[k].kind = "instanceEnum" =>
                   /\ Has(domains, answerers[k].domain)
                   /\ Has(domains[answerers[k].domain].Services, answerers[k].type)
                   /\ k = InstanceEnumDomain(answerers[k].type, answerers[k].domain)
            /\ answerers[k].kind = "typeEnum" =>
                   /\ Has(domains, answerers[k].domain)
                   /\ k = TypeEnumDomain(answerers[k].domain)
        /\ LiveInstances(domains) = {} =>
               domains = EmptyMap /\ answerers = EmptyMap

\* an instance was removed, which emptied the tree and the index
C10_Witness ==
    /\ ~regPanic
    /\ lastOp.op = "remove"
    /\ lastOp.found
    /\ domains = EmptyMap
    /\ answerers = EmptyMap

(***************************************************************************)
(* What the main loop did                                                  *)
(***************************************************************************)
\* the Answer calls made for the command id
AnswersOf(id) == SelectSeq(trace, LAMBDA e : e.id = id /\ e.ev = "answer")

\* the datagrams written for the command id
SendsOf(id, kind) ==
    SelectSeq(trace, LAMBDA e : e.id = id /\ e.ev = "send" /\ e.kind = kind)

\* the handling of the command id has ended with the given outcome
Done(id, outcome) ==
    \E k \in DOMAIN trace :
        trace[k].id = id /\ trace[k].ev = "done" /\ trace[k].outcome = outcome

\* the records of a frame, in all its sections
Records(m) ==
    {m.Answer[k] : k \in DOMAIN m.Answer} \cup {m.Ns[k] : k \in DOMAIN m.Ns}
    \cup {m.Extra[k] : k \in DOMAIN m.Extra}

\* the records of one scope of an answer
ScopeRecords(rs) ==
    {rs.AnswerSection[k] : k \in DOMAIN rs.AnswerSection}
    \cup {rs.AuthoritySection[k] : k \in DOMAIN rs.AuthoritySection}
    \cup {rs.AdditionalSection[k] : k \in DOMAIN rs.AdditionalSection}

\* a record without the top bit of its class
Plain(r) ==
    [r EXCEPT !.Class = IF @ >= UniqueRecordBit THEN @ - UniqueRecordBit ELSE @]

PlainSeq(s) == [k \in DOMAIN s |-> Plain(s[k])]

\* the records of one section of the answers es, in order, each answer's
\* Unique records before its Shared records
RECURSIVE SectionOf(_, _)
SectionOf(es, sec) ==
    IF es = <<>> THEN <<>>
    ELSE Head(es).a.Unique[sec] \o Head(es).a.Shared[sec]
         \o SectionOf(Tail(es), sec)

\* the main loop holds a query and has built its frames
Handling == cmd.kind = "query" /\ uRes # NoFrame

\* the query's source port is not the mDNS port
FromLegacy == cmd.Packet.Source.Address.Port # Port

\* the query the loop holds has exactly one question, which has the
\* unicast-request bit set
OnlyUnicastQuestion ==
    /\ cmd.kind = "query"
    /\ Len(cmd.Message.Question) = 1
    /\ cmd.Message.Question[1].Qclass >= UnicastResponseBit

\* C2: while a query is handled, each frame holds exactly the records of
\* the answers to the questions made so far that are routed to it, in
\* order: the unicast frame those of the questions with the
\* unicast-request bit set and, from a legacy source, those of all
\* questions; the multicast frame those of the other questions.  A unicast
\* datagram carries the unicast frame to the query's source address, a
\* multicast datagram the multicast frame to the group of the transport.
\* A query whose only question has the unicast-request bit set yields no
\* multicast datagram and at most one unicast datagram, and exactly one
\* when it was handled to the end and the unicast frame holds a record.
C2_Routing ==
    Handling =>
        LET es == AnswersOf(cmd.id)
            ok == SelectSeq(es, LAMBDA e : ~e.err)
            toU == SelectSeq(ok, LAMBDA e : e.unicast \/ FromLegacy)
            toM == SelectSeq(ok, LAMBDA e : ~(e.unicast \/ FromLegacy))
            us == SendsOf(cmd.id, "unicast")
            ms == SendsOf(cmd.id, "multicast")
        IN  /\ \A k \in DOMAIN es :
                   es[k].unicast =
                       (cmd.Message.Question[es[k].k].Qclass >= UnicastResponseBit)
            /\ PlainSeq(uRes.Answer) = SectionOf(toU, "AnswerSection")
            /\ PlainSeq(uRes.Ns) = SectionOf(toU, "AuthoritySection")
            /\ PlainSeq(uRes.Extra) = SectionOf(toU, "AdditionalSection")
            /\ PlainSeq(mRes.Answer) = SectionOf(toM, "AnswerSection")
            /\ PlainSeq(mRes.Ns) = SectionOf(toM, "AuthoritySection")
            /\ PlainSeq(mRes.Extra) = SectionOf(toM, "AdditionalSection")
            /\ \A k \in DOMAIN us :
                   /\ us[k].out.To.Address = cmd.Packet.Source.Address
                   /\ us[k].out.Msg = uRes
            /\ \A k \in DOMAIN ms :
                   /\ ms[k].out.To.Address = Group(cmd.Packet.Transport)
                   /\ ms[k].out.Msg = mRes
            /\ OnlyUnicastQuestion =>
                   /\ Len(ms) = 0
                   /\ Len(us) <= 1
                   /\ Done(cmd.id, "ok") /\ Records(uRes) # {} => Len(us) = 1

\* a query whose only question has the unicast-request bit set was handled
\* to the end, and one unicast datagram was written for it
C2_Witness ==
    /\ Handling
    /\ OnlyUnicastQuestion
    /\ Done(cmd.id, "ok")
    /\ Len(SendsOf(cmd.id, "unicast")) = 1
    /\ Len(SendsOf(cmd.id, "multicast")) = 0

\* C2 as stated: every query whose only question has the unicast-request
\* bit set and that was handled to the end yields exactly one unicast
\* datagram and no multicast datagram.
C2_AsStated ==
    OnlyUnicastQuestion /\ Done(cmd.id, "ok") =>
        /\ Len(SendsOf(cmd.id, "unicast")) = 1
        /\ Len(SendsOf(cmd.id, "multicast")) = 0

\* C3: for every query, at most one unicast datagram and at most one
\* multicast datagram are written.
C3_AtMostOneEach ==
    \A id \in 1..nRead :
        /\ Len(SendsOf(id, "unicast")) <= 1
        /\ Len(SendsOf(id, "multicast")) <= 1

\* a query with two questions was handled, and both a unicast and a
\* multicast datagram were written for it
C3_Witness ==
    /\ cmd.kind = "query"
    /\ Len(cmd.Message.Question) = 2
    /\ Done(cmd.id, "ok")
    /\ Len(SendsOf(cmd.id, "unicast")) = 1
    /\ Len(SendsOf(cmd.id, "multicast")) = 1

\* the records that the answers es hold in their Unique scope
UniqueRecordsOf(es) ==
    UNION {ScopeRecords(es[k].a.Unique) : k \in DOMAIN es}

\* C4: in the frames built for a non-legacy query, and in the datagrams
\* written for it, every record that an answer held in its Unique scope has
\* the top bit of its class set; in the frame built for a legacy query, and
\* in the datagram written for it, no record has that bit set.
C4_UniqueBit ==
    Handling =>
        LET unique == UniqueRecordsOf(AnswersOf(cmd.id))
            frames == {uRes, mRes}
                      \cup {trace[k].out.Msg :
                               k \in {j \in DOMAIN trace :
                                         trace[j].id = cmd.id /\ trace[j].ev = "send"}}
        IN  \A m \in frames : \A r \in Records(m) :
                IF FromLegacy
                THEN r.Class < UniqueRecordBit
                ELSE Plain(r) \in unique => r.Class >= UniqueRecordBit

\* a datagram with a record of a Unique scope was written for a non-legacy
\* query
C4_Witness ==
    /\ Handling
    /\ ~FromLegacy
    /\ \E k \in DOMAIN trace :
          /\ trace[k].id = cmd.id
          /\ trace[k].ev = "send"
          /\ \E r \in Records(trace[k].out.Msg) :
                Plain(r) \in UniqueRecordsOf(AnswersOf(cmd.id))

\* a datagram with records was written for a legacy query
C4_WitnessLegacy ==
    /\ Handling
    /\ FromLegacy
    /\ \E k \in DOMAIN trace :
          /\ trace[k].id = cmd.id
          /\ trace[k].ev = "send"
          /\ Records(trace[k].out.Msg) # {}

\* no question of the query the loop holds is for a name of the index
NoNameInIndex ==
    /\ cmd.kind = "query"
    /\ \A k \in DOMAIN cmd.Message.Question :
          ~Has(answerers, cmd.Message.Question[k].Name)

\* C5: every datagram written holds at least one record, and no datagram is
\* written for a query none of whose questions is for a name of the index.
C5_NoEmptyFrame ==
    /\ \A k \in DOMAIN trace :
          trace[k].ev = "send" => Records(trace[k].out.Msg) # {}
    /\ NoNameInIndex =>
          /\ SendsOf(cmd.id, "unicast") = <<>>
          /\ SendsOf(cmd.id, "multicast") = <<>>

\* a query with a question, all for names that are not in the index, was
\* handled to the end
C5_Witness ==
    /\ NoNameInIndex
    /\ Len(cmd.Message.Question) > 0
    /\ Done(cmd.id, "ok")

\* C6: the main loop does not stop while the context is not done: it never
\* panics, and it returns only once the context is done.
C6_MainLoopSurvives ==
    /\ mainPc # "panic"
    /\ mainPc = "returned" => ctxDone

\* C7: when the context given to Run is cancelled, the main loop and every
\* receive task eventually return and so does Run, with nil unless a task
\* had failed on its own.
Terminated ==
    /\ runResult # "running"
    /\ mainPc = "returned"
    /\ \A t \in Transports : recvPc[t] \in {"off", "returned"}
    /\ firstErr = "context canceled" => runResult = "nil"

C7_CancelTerminates == (cancelled /\ mainPc # "init") ~> Terminated

\* C8: for a query whose OPCODE or RCODE is not zero, Answer is not called
\* and no datagram is written.
C8_InvalidDropped ==
    (cmd.kind = "query" /\ (cmd.Message.Opcode # 0 \/ cmd.Message.Rcode # 0)) =>
        /\ AnswersOf(cmd.id) = <<>>
        /\ SendsOf(cmd.id, "unicast") = <<>>
        /\ SendsOf(cmd.id, "multicast") = <<>>

\* a query with a non-zero RCODE was handled: it was rejected
C8_Witness ==
    /\ cmd.kind = "query"
    /\ cmd.Message.Rcode # 0
    /\ Len(cmd.Message.Question) > 0
    /\ Done(cmd.id, "invalid")

\* C9: the Answer calls for a query are made for its questions in their
\* order in the message; the datagrams of a query are written after its
\* last Answer call, the unicast one first; and whatever the loop does for
\* a query comes after the handling of every query it took before has
\* ended, on either transport.
C9_OneAtATime ==
    /\ \A id \in 1..nRead :
          \A k \in DOMAIN AnswersOf(id) : AnswersOf(id)[k].k = k
    /\ \A k \in DOMAIN trace :
          (trace[k].ev = "answer" /\ trace[k].id = cmd.id) =>
              trace[k].q.Name = cmd.Message.Question[trace[k].k].Name
    /\ \A i \in DOMAIN trace : \A j \in DOMAIN trace :
          i < j =>
            /\ trace[i].id = trace[j].id =>
                  /\ trace[i].ev # "done"
                  /\ trace[i].ev = "send" => trace[j].ev # "answer"
                  /\ (trace[i].ev = "send" /\ trace[j].ev = "send") =>
                        (trace[i].kind = "unicast" /\ trace[j].kind = "multicast")
            /\ trace[i].id # trace[j].id =>
                  \E m \in i..(j - 1) :
                      trace[m].id = trace[i].id /\ trace[m].ev = "done"

\* two queries, one received on each transport, were answered one after
\* the other, the first with both its datagrams written
C9_Witness ==
    \E i \in DOMAIN trace : \E j \in DOMAIN trace :
        /\ i < j
        /\ trace[i].ev = "answer"
        /\ trace[j].ev = "answer"
        /\ trace[i].id # trace[j].id
        /\ trace[i].via # trace[j].via
        /\ Len(SendsOf(trace[i].id, "unicast")) = 1
        /\ Len(SendsOf(trace[i].id, "multicast")) = 1


(***************************************************************************)
(* Registry calls: replacement, rejected instances, removal of what is not *)
(* registered                                                              *)
(***************************************************************************)
\* the instance of the tree under the key of the last call
InstanceAtLastKey ==
    domains[lastOp.domain].Services[lastOp.type].Instances[lastOp.name]

\* the last call was an AddInstance of a valid instance whose key was
\* registered, and it returned
Replaced ==
    /\ lastOp.op = "add"
    /\ lastOp.valid
    /\ lastOp.found
    /\ ~regPanic

\* C11: after AddInstance of an instance whose (domain, service type, name)
\* was registered, the tree holds the new instance under that key, the
\* index has no entry for the old target FQDN when it differs from the new
\* one, and the instance FQDN and the new target FQDN are bound to the
\* answerers of the new instance.
C11_Replaces ==
    Replaced =>
        /\ Registered(domains, lastOp.name, lastOp.type, lastOp.domain)
        /\ InstanceAtLastKey = lastOp.inst
        /\ \A x \in LiveInstances(domains) :
               (x.Name = lastOp.name /\ x.ServiceType = lastOp.type
                /\ x.Domain = lastOp.domain) => x = lastOp.inst
        /\ TargetFQDN(lastOp.old[1]) # TargetFQDN(lastOp.inst) =>
               ~Has(answerers, TargetFQDN(lastOp.old[1]))
        /\ Has(answerers, InstanceFQDN(lastOp.inst))
        /\ answerers[InstanceFQDN(lastOp.inst)] =
               [kind |-> "instance", inst |-> lastOp.inst]
        /\ Has(answerers, TargetFQDN(lastOp.inst))
        /\ answerers[TargetFQDN(lastOp.inst)] =
               [kind |-> "target", inst |-> lastOp.inst]

\* an instance was replaced by one with another target host
C11_Witness ==
    /\ Replaced
    /\ lastOp.old[1] # lastOp.inst
    /\ TargetFQDN(lastOp.old[1]) # TargetFQDN(lastOp.inst)
    /\ InstanceAtLastKey = lastOp.inst

\* C12: a step that is an AddInstance of an instance that Validate rejects
\* ends with the call having panicked and with the tree and the index as
\* they were before the call.
C12_RejectedUnchanged ==
    [][(lastOp'.op = "add" /\ ~lastOp'.valid) =>
           (regPanic' /\ domains' = domains /\ answerers' = answerers)]_vars

\* an invalid instance was given to AddInstance while the tree was not empty
C12_Witness ==
    /\ lastOp.op = "add"
    /\ ~lastOp.valid
    /\ regPanic
    /\ lastOp.inst.TargetPort = 0
    /\ domains # EmptyMap

\* C13: a step that is a RemoveInstance for a key that is not registered
\* changes neither the tree nor the index, and the call returns.
C13_RemoveAbsentNoop ==
    [][(lastOp'.op = "remove" /\ ~lastOp'.found) =>
           (~regPanic' /\ domains' = domains /\ answerers' = answerers)]_vars

\* RemoveInstance was called for a name that is not registered in a service
\* that is
C13_Witness ==
    /\ lastOp.op = "remove"
    /\ ~lastOp.found
    /\ ~regPanic
    /\ Has(domains, lastOp.domain)
    /\ Has(domains[lastOp.domain].Services, lastOp.type)
    /\ ~Has(domains[lastOp.domain].Services[lastOp.type].Instances, lastOp.name)

(***************************************************************************)
(* What Answerer.Answer returns                                            *)
(***************************************************************************)
SeqRange(s) == {s[k] : k \in DOMAIN s}

\* the last call was an Answer call
Asked == lastOp.op = "answer"

\* the kind of the answerer the index binds to the name asked for
AskedKind ==
    IF Asked /\ Has(answerers, lastOp.q.Name)
    THEN answerers[lastOp.q.Name].kind
    ELSE "none"

\* the answerer the question went to
AskedAnswerer == answerers[lastOp.q.Name]

\* the service an instance enumerator enumerates
AskedService ==
    domains[AskedAnswerer.domain].Services[AskedAnswerer.type]

\* what the host told about the addresses of instance i during the call
ResolutionOf(i) ==
    IF i.TargetHost.kind = "FQDN" THEN lastOp.env.remote ELSE lastOp.env.local

\* the address records of instance i of one family for the addresses ips
AddrRecords(i, ips, v4) ==
    LET sel == SelectSeq(ips, LAMBDA ip : ip.v4 = v4)
    IN  [k \in 1..Len(sel) |->
            IF v4 THEN InstanceA(i, sel[k]) ELSE InstanceAAAA(i, sel[k])]

\* all the records of the answer returned
AnswerRecords == ScopeRecords(lastOp.a.Unique) \cup ScopeRecords(lastOp.a.Shared)

\* C14: for a PTR or ANY question on an instance-enumeration name, each
\* instance's PTR is in the answer section of the Shared scope and in no
\* section of the Unique scope, and its SRV and TXT are in the additional
\* section of the Unique scope.
C14_EnumPTRShared ==
    (AskedKind = "instanceEnum" /\ lastOp.q.Qtype \in {"PTR", "ANY"}) =>
        \A n \in DOMAIN AskedService.Instances :
            LET i == AskedService.Instances[n]
            IN  /\ InstancePTR(i) \in SeqRange(lastOp.a.Shared.AnswerSection)
                /\ InstancePTR(i) \notin ScopeRecords(lastOp.a.Unique)
                /\ InstanceSRV(i) \in SeqRange(lastOp.a.Unique.AdditionalSection)
                /\ InstanceTXT(i) \in SeqRange(lastOp.a.Unique.AdditionalSection)

\* the effective TTL of an instance, as the specification defines it: the
\* instance's TTL, or 120 s when that is zero, in whole seconds
EffectiveTTL(i) ==
    LET ttl == IF i.TTL = 0 THEN 120 * Second ELSE i.TTL
    IN  IF ttl >= 0 THEN ttl \div Second ELSE -((-ttl) \div Second)

\* the largest effective TTL among the instances is
MaxEffectiveTTL(is) ==
    LET ttls == {EffectiveTTL(is[n]) : n \in DOMAIN is}
    IN  CHOOSE m \in ttls : \A x \in ttls : x <= m

\* C16: for a PTR or ANY question on a type-enumeration name the answer
\* holds nothing but, in the answer section of the Shared scope, one PTR
\* per service type of the domain that has an instance, with the type's
\* instance-enumeration name as RDATA and the largest effective TTL of the
\* type's instances as TTL; for another question type the answer is empty.
\* A negative number of seconds cannot be the TTL of a record: the TTL is
\* required to be the largest effective TTL whenever that is not negative.
C16_TypeEnum ==
    AskedKind = "typeEnum" =>
        LET d == domains[AskedAnswerer.domain]
            types == {t \in DOMAIN d.Services :
                         DOMAIN d.Services[t].Instances # {}}
            ptrs == lastOp.a.Shared.AnswerSection
        IN  /\ ~lastOp.err
            /\ lastOp.a.Unique = EmptySections
            /\ lastOp.a.Shared.AuthoritySection = <<>>
            /\ lastOp.a.Shared.AdditionalSection = <<>>
            /\ IF lastOp.q.Qtype \in {"PTR", "ANY"}
               THEN /\ Len(ptrs) = Cardinality(types)
                    /\ \A t \in types : \E k \in DOMAIN ptrs :
                         /\ ptrs[k].Rrtype = "PTR"
                         /\ ptrs[k].Class = ClassINET
                         /\ ptrs[k].Data = InstanceEnumDomain(t, d.Name)
                         /\ LET m == MaxEffectiveTTL(d.Services[t].Instances)
                            IN  m >= 0 => ptrs[k].Ttl = Uint32(m)
               ELSE ptrs = <<>>

\* C17: the instance answerer answers ANY with SRV and TXT, SRV with SRV,
\* TXT with TXT and any other type with nothing, all in the answer section
\* of the Unique scope; the additional section of the Unique scope holds
\* the target's A and AAAA records for ANY and SRV when the target resolves
\* and nothing otherwise; the Shared scope stays empty.
C17_InstanceAnswer ==
    AskedKind = "instance" =>
        LET i == AskedAnswerer.inst
            res == ResolutionOf(i)
            t == lastOp.q.Qtype
        IN  /\ ~lastOp.err
            /\ lastOp.a.Shared = EmptySections
            /\ lastOp.a.Unique.AuthoritySection = <<>>
            /\ lastOp.a.Unique.AnswerSection =
                   (CASE t = "ANY" -> <<InstanceSRV(i), InstanceTXT(i)>>
                      [] t = "SRV" -> <<InstanceSRV(i)>>
                      [] t = "TXT" -> <<InstanceTXT(i)>>
                      [] OTHER -> <<>>)
            /\ lastOp.a.Unique.AdditionalSection =
                   (IF t \in {"ANY", "SRV"} /\ ~res.err
                    THEN AddrRecords(i, res.ips, TRUE)
                         \o AddrRecords(i, res.ips, FALSE)
                    ELSE <<>>)

\* an instance was asked for ANY and its target resolved
C17_Witness ==
    /\ AskedKind = "instance"
    /\ lastOp.q.Qtype = "ANY"
    /\ Len(lastOp.a.Unique.AnswerSection) = 2
    /\ Len(lastOp.a.Unique.AdditionalSection) = 2

\* the Answer call went to a target answerer whose target resolved, or was
\* for a type the target answerer does not answer
TargetAsked ==
    /\ AskedKind = "target"
    /\ \/ ~ResolutionOf(AskedAnswerer.inst).err
       \/ lastOp.q.Qtype \notin {"A", "AAAA", "ANY"}

\* C18: the target answerer answers ANY with the A and the AAAA records in
\* the answer section of the Unique scope, A with the A records in the
\* answer section and the AAAA records in the additional section, AAAA the
\* other way round, and any other type with nothing and without an error,
\* whether or not the target can be resolved.
C18_TargetAnswer ==
    TargetAsked =>
        LET i == AskedAnswerer.inst
            res == ResolutionOf(i)
            t == lastOp.q.Qtype
            v4 == AddrRecords(i, res.ips, TRUE)
            v6 == AddrRecords(i, res.ips, FALSE)
        IN  /\ ~lastOp.err
            /\ lastOp.a.Shared = EmptySections
            /\ lastOp.a.Unique.AuthoritySection = <<>>
            /\ lastOp.a.Unique.AnswerSection =
                   (CASE t = "ANY" -> v4 \o v6
                      [] t = "A" -> v4
                      [] t = "AAAA" -> v6
                      [] OTHER -> <<>>)
            /\ lastOp.a.Unique.AdditionalSection =
                   (CASE t = "A" -> v6
                      [] t = "AAAA" -> v4
                      [] OTHER -> <<>>)

\* a target with an IPv4 and an IPv6 address was asked for its A records
C18_Witness ==
    /\ TargetAsked
    /\ lastOp.q.Qtype = "A"
    /\ Len(lastOp.a.Unique.AnswerSection) = 1
    /\ lastOp.a.Unique.AnswerSection[1].Rrtype = "A"
    /\ Len(lastOp.a.Unique.AdditionalSection) = 1
    /\ lastOp.a.Unique.AdditionalSection[1].Rrtype = "AAAA"

\* C19: when the addresses of a target cannot be resolved, the instance
\* enumerator and the instance answerer report no error and return their
\* PTR, SRV and TXT records without an address record of that target; the
\* target answerer reports an error and returns no record.
C19_ResolutionFailure ==
    /\ (AskedKind = "instanceEnum" /\ lastOp.q.Qtype \in {"PTR", "ANY"}) =>
           /\ ~lastOp.err
           /\ \A n \in DOMAIN AskedService.Instances :
                  LET i == AskedService.Instances[n]
                  IN  ResolutionOf(i).err =>
                          /\ InstancePTR(i) \in AnswerRecords
                          /\ InstanceSRV(i) \in AnswerRecords
                          /\ InstanceTXT(i) \in AnswerRecords
           /\ \A r \in AnswerRecords :
                  r.Rrtype \in {"A", "AAAA"} =>
                      \E n \in DOMAIN AskedService.Instances :
                          /\ r.Name = TargetFQDN(AskedService.Instances[n])
                          /\ ~ResolutionOf(AskedService.Instances[n]).err
    /\ (AskedKind = "instance" /\ ResolutionOf(AskedAnswerer.inst).err) =>
           /\ ~lastOp.err
           /\ lastOp.q.Qtype \in {"ANY", "SRV"} =>
                  InstanceSRV(AskedAnswerer.inst) \in AnswerRecords
           /\ lastOp.q.Qtype \in {"ANY", "TXT"} =>
                  InstanceTXT(AskedAnswerer.inst) \in AnswerRecords
           /\ \A r \in AnswerRecords : r.Rrtype \notin {"A", "AAAA"}
    /\ (AskedKind = "target" /\ ResolutionOf(AskedAnswerer.inst).err
        /\ lastOp.q.Qtype \in {"A", "AAAA", "ANY"}) =>
           /\ lastOp.err
           /\ lastOp.a = EmptyAnswer

\* a target that cannot be resolved was asked for its addresses
C19_Witness ==
    /\ AskedKind = "target"
    /\ ResolutionOf(AskedAnswerer.inst).err
    /\ lastOp.q.Qtype = "AAAA"
    /\ lastOp.err

\* a service was enumerated while the targets of its instances could not
\* be resolved
C19_WitnessEnum ==
    /\ AskedKind = "instanceEnum"
    /\ lastOp.q.Qtype = "PTR"
    /\ \A n \in DOMAIN AskedService.Instances :
           ResolutionOf(AskedService.Instances[n]).err
    /\ ~lastOp.err
    /\ Len(lastOp.a.Unique.AdditionalSection) = 4

\* C20: the owner of every A and AAAA record of an answer is the target
\* FQDN of an instance that is in the tree when the question is answered.
C20_AddressOwners ==
    Asked =>
        \A r \in AnswerRecords :
            r.Rrtype \in {"A", "AAAA"} =>
                \E i \in LiveInstances(domains) : r.Name = TargetFQDN(i)

\* an answer with an A and an AAAA record was returned after an instance
\* had been replaced or removed
C20_Witness ==
    /\ Asked
    /\ \E r \in AnswerRecords : r.Rrtype = "A"
    /\ \E r \in AnswerRecords : r.Rrtype = "AAAA"
    /\ ~Has(answerers, <<"g", ".", "l", ".">>)
    /\ \E i \in LiveInstances(domains) : i.Name = NameB

(***************************************************************************)
(* Browsing a service                                                      *)
(***************************************************************************)
\* the services of the tree whose instance-enumeration name is name
ServicesNamed(name) ==
    {p \in LiveServices(domains) : InstanceEnumDomain(p[2], p[1]) = name}

\* the loop holds a query from port 5353 with exactly one question, of
\* type PTR and without the unicast-request bit, for the instances of a
\* service of the tree, and has answered the question
BrowseAnswered ==
    /\ Handling
    /\ ~FromLegacy
    /\ Len(cmd.Message.Question) = 1
    /\ cmd.Message.Question[1].Qtype = "PTR"
    /\ cmd.Message.Question[1].Qclass < UnicastResponseBit
    /\ ServicesNamed(cmd.Message.Question[1].Name) # {}
    /\ AnswersOf(cmd.id) # <<>>

\* the PTR records of the answer section of a frame
AnswerPTRs(m) == SelectSeq(m.Answer, LAMBDA r : r.Rrtype = "PTR")

\* the answer section of frame m holds one PTR per instance of the service
\* at path p, with owner name and the instance's FQDN as RDATA, and no
\* other PTR
OnePTRPerInstance(m, p, name) ==
    LET is == domains[p[1]].Services[p[2]].Instances
        ptrs == AnswerPTRs(m)
    IN  /\ Len(ptrs) = Cardinality(DOMAIN is)
        /\ \A n \in DOMAIN is : \E k \in DOMAIN ptrs :
               ptrs[k].Name = name /\ ptrs[k].Data = InstanceFQDN(is[n])

\* C15: for a query from port 5353 with exactly one question, of type PTR
\* and without the unicast-request bit, on the instance-enumeration name of
\* a registered service, the answer section of the multicast frame, and of
\* the multicast datagram written, holds exactly one PTR per instance of
\* the service (owner the enumeration name, RDATA the instance's FQDN) and
\* no other PTR.
C15_BrowsePTRs ==
    BrowseAnswered =>
        \A p \in ServicesNamed(cmd.Message.Question[1].Name) :
            /\ OnePTRPerInstance(mRes, p, cmd.Message.Question[1].Name)
            /\ \A k \in DOMAIN SendsOf(cmd.id, "multicast") :
                   OnePTRPerInstance(SendsOf(cmd.id, "multicast")[k].out.Msg, p,
                                     cmd.Message.Question[1].Name)

\* a service with two instances was browsed and the multicast datagram
\* with the two PTR records was written
C15_Witness ==
    /\ BrowseAnswered
    /\ Len(SendsOf(cmd.id, "multicast")) = 1
    /\ Len(AnswerPTRs(SendsOf(cmd.id, "multicast")[1].out.Msg)) = 2
    /\ Len(SendsOf(cmd.id, "unicast")) = 0

(***************************************************************************)
(* The header of a response frame                                          *)
(***************************************************************************)
\* the header of the frame m is that of an mDNS response with the ID id
ResponseHeader(m, id) ==
    /\ m.Response
    /\ m.Authoritative
    /\ m.Opcode = 0
    /\ m.Rcode = 0
    /\ ~m.Truncated
    /\ ~m.RecursionDesired
    /\ ~m.RecursionAvailable
    /\ ~m.Zero
    /\ ~m.AuthenticatedData
    /\ ~m.CheckingDisabled
    /\ m.Question = <<>>
    /\ m.Id = id

\* the send events of the command the main loop received last
SentNow == {k \in 1..Len(trace) : trace[k].ev = "send" /\ trace[k].id = cmd.id}

\* C21: every frame NewResponse built for the query being handled, and
\* every frame sent for it, has QR = 1, AA = 1, OPCODE 0, RCODE 0, the flags
\* TC, RD, RA, Z, AD and CD clear and no question; the ID of the multicast
\* frame is 0 and the ID of the unicast frame is the ID of the query.
C21_ResponseHeader ==
    /\ uRes # NoFrame => ResponseHeader(uRes, cmd.Message.Id)
    /\ mRes # NoFrame => ResponseHeader(mRes, 0)
    /\ \A k \in SentNow :
           ResponseHeader(trace[k].out.Msg,
                          IF trace[k].kind = "unicast"
                          THEN cmd.Message.Id ELSE 0)

\* a query with a non-zero ID, every flag set and two questions was
\* answered with a unicast and a multicast datagram
C21_Witness ==
    /\ cmd.kind = "query"
    /\ cmd.Message.Id # 0
    /\ cmd.Message.Truncated /\ cmd.Message.RecursionDesired
    /\ cmd.Message.RecursionAvailable /\ cmd.Message.Zero
    /\ cmd.Message.AuthenticatedData /\ cmd.Message.CheckingDisabled
    /\ cmd.Message.Authoritative
    /\ Len(cmd.Message.Question) = 2
    /\ \E k \in SentNow : trace[k].kind = "unicast"
    /\ \E k \in SentNow : trace[k].kind = "multicast"

(***************************************************************************)
(* A transport that cannot listen                                          *)
(***************************************************************************)
\* C22: when Listen fails for an enabled address family and that error is
\* the first a task returns, the main loop and every receive task end and
\* Run returns the error.
C22_ListenFailureFatal ==
    (firstErr = "listen failed") ~>
        (/\ runResult = "listen failed"
         /\ mainPc = "returned"
         /\ \A t \in Transports : recvPc[t] \in {"off", "returned"})

(***************************************************************************)
(* The start-up delay and the name functions                               *)
(***************************************************************************)
\* C23: randT(d) returns a duration of [0, d], so the start-up delay of the
\* main loop lies in [0, 250 ms].
C23_DelayRange ==
    call.fn = "randT" => (0 <= call.res /\ call.res <= call.d)

\* the instance label s with every dot and every backslash escaped
RECURSIVE Escape(_)
Escape(s) ==
    IF s = <<>> THEN <<>>
    ELSE (IF Head(s) \in {Dot, "\\"} THEN <<"\\", Head(s)>> ELSE <<Head(s)>>)
         \o Escape(Tail(s))

\* the first label of s, unescaped: a backslash makes the next character
\* literal, a dot that is not escaped ends the label
RECURSIVE DecodeFirstLabel(_)
DecodeFirstLabel(s) ==
    IF s = <<>> \/ Head(s) = Dot THEN <<>>
    ELSE IF Head(s) = "\\" /\ Len(s) > 1
    THEN <<s[2]>> \o DecodeFirstLabel(Tail(Tail(s)))
    ELSE <<Head(s)>> \o DecodeFirstLabel(Tail(s))

\* C24: the FQDN of an instance is the escaped instance name followed by
\* the service type and the domain, and its first label decodes to the
\* instance name, for every instance name.
C24_InstanceLabelRoundTrip ==
    call.fn = "Instance.FQDN" =>
        /\ ~call.panic
        /\ call.res = Escape(call.n) \o <<Dot>> \o TypeH \o <<Dot>> \o DomL
        /\ DecodeFirstLabel(call.res) = call.n

\* C25: for a non-empty string without a leading dot, Parse succeeds and
\* returns a Label when the string has no dot, an FQDN when its last
\* character is a dot, and an unqualified name otherwise.
C25_ParseKinds ==
    (call.fn = "Parse" /\ call.s # <<>> /\ call.s[1] # Dot) =>
        /\ call.ok
        /\ call.name.s = call.s
        /\ call.name.kind = IF IndexDot(call.s) = 0 THEN "Label"
                            ELSE IF call.s[Len(call.s)] = Dot THEN "FQDN"
                            ELSE "UDN"

\* C26: Split of a valid name does not fail; the head is the first label;
\* there is no tail for a single label, otherwise the tail is the rest
\* after the separating dot, a valid name that is qualified exactly when the
\* name is; the head joined with the tail is the name.
C26_SplitJoin ==
    call.fn = "Split" =>
        LET s == call.n.s
            k == IndexDot(s)
            single == (k = 0 \/ k = Len(s))
            r == call.res
        IN  /\ ~r.panic
            /\ r.head = IF k = 0 THEN s ELSE SubSeq(s, 1, k - 1)
            /\ single => r.tail = <<>>
            /\ ~single =>
                   /\ r.tail # <<>>
                   /\ r.tail[1].s = SubSeq(s, k + 1, Len(s))
                   /\ AnyNameValidate(r.tail[1])
                   /\ IsQualified(r.tail[1]) = IsQualified(call.n)
                   /\ call.joined # <<>>
                   /\ ~call.joined[1].panic
                   /\ call.joined[1].name.s = s

(***************************************************************************)
(* The SRV record of an instance                                           *)
(***************************************************************************)
\* C27: the SRV record of an instance registered without a priority and a
\* weight (the registered instances all are) has priority 10 and weight 1.
C27_SRVDefaults ==
    Asked =>
        \A r \in AnswerRecords :
            r.Rrtype = "SRV" => (r.Data.Priority = 10 /\ r.Data.Weight = 1)

(***************************************************************************)
(* The buffers of the packets read                                         *)
(***************************************************************************)
\* the packet id is offered to the main loop or is being handled by it
InFlight(id) ==
    \/ \E t \in Transports : held[t] # NoCommand /\ held[t].id = id
    \/ /\ mainPc \in {"exec", "answer", "sendU", "sendM"}
       /\ cmd # NoCommand
       /\ cmd.id = id

\* C28: the buffer a Read leased is never put back twice, and it has been
\* put back once when the packet is no longer offered or handled: after it
\* was handled as a query or as a response, after its message failed to
\* parse, and after its hand-off was abandoned.
C28_BufferReturnedOnce ==
    \A id \in DOMAIN buffers :
        /\ buffers[id].puts <= 1
        /\ ~InFlight(id) => buffers[id].puts = 1

(***************************************************************************)
(* The interface and the transport of a response                           *)
(***************************************************************************)
\* C29: every datagram written in response to the query being handled,
\* unicast or multicast, is written on the transport that received the
\* query, with the interface index of the inbound packet.
C29_SameInterfaceAndTransport ==
    \A k \in SentNow :
        /\ trace[k].wire.Transport = cmd.Packet.Transport
        /\ trace[k].wire.IfIndex = cmd.Packet.Source.InterfaceIndex

\* a query that arrived over IPv6 on the other interface was answered with
\* a unicast and a multicast datagram
C29_Witness ==
    /\ cmd.kind = "query"
    /\ cmd.Packet.Transport = "udp6"
    /\ cmd.Packet.Source.InterfaceIndex = OtherInterface
    /\ \E k \in SentNow : trace[k].kind = "unicast"
    /\ \E k \in SentNow : trace[k].kind = "multicast"

(***************************************************************************)
(* The addresses in the answers of the responder                           *)
(***************************************************************************)
\* the questions of the query being handled that were answered
AnsweredNow ==
    {k \in 1..Len(trace) :
        trace[k].ev = "answer" /\ trace[k].id = cmd.id /\ ~trace[k].err}

\* the addresses in the A and AAAA records of the answer a that are owned
\* by the target host of instance i
AddressesFor(a, i) ==
    {r.Data : r \in {x \in ScopeRecords(a.Unique) \cup ScopeRecords(a.Shared) :
                        x.Rrtype \in {"A", "AAAA"} /\ x.Name = TargetFQDN(i)}}

\* C30: the address records of an answer for an instance with an
\* unqualified target host carry the addresses of the interface on which
\* the query arrived; those for an instance with a fully-qualified target
\* host carry the addresses the resolver returned.
C30_ArrivalInterfaceAddresses ==
    \A k \in AnsweredNow : \A i \in SeqRange(RunInstances) :
        AddressesFor(trace[k].a, i) # {} =>
            AddressesFor(trace[k].a, i) =
                IF IsQualified(i.TargetHost) THEN {IP4R}
                ELSE SeqRange(InterfaceAddrs(cmd.Packet.Source.InterfaceIndex))

(***************************************************************************)
(* The unicast-response bit of a question                                  *)
(***************************************************************************)
\* the messages of the datagrams that arrive
FrameMessages == {d.Msg : d \in FrameDatagrams}

\* C31: for every question of the query being handled that was given to
\* the Answerer, the unicast flag is set exactly when bit 0x8000 of the
\* question's class is set in the query, the question given to the Answerer
\* is the query's question with that bit cleared, and the query message is
\* still as it arrived.
C31_UnicastBitCleared ==
    /\ cmd # NoCommand => cmd.Message \in FrameMessages
    /\ \A k \in 1..Len(trace) :
           (trace[k].ev = "answer" /\ trace[k].id = cmd.id) =>
               LET raw == cmd.Message.Question[trace[k].k]
               IN  /\ trace[k].unicast = (raw.Qclass >= UnicastResponseBit)
                   /\ trace[k].q.Name = raw.Name
                   /\ trace[k].q.Qtype = raw.Qtype
                   /\ trace[k].q.Qclass = raw.Qclass % UnicastResponseBit
                   /\ trace[k].q.Qclass < UnicastResponseBit

\* a question whose class has all 16 bits set and one whose class has all
\* but the top bit set were given to the Answerer
C31_Witness ==
    /\ cmd.kind = "query"
    /\ \E k \in 1..Len(trace) :
           /\ trace[k].ev = "answer" /\ trace[k].id = cmd.id
           /\ cmd.Message.Question[trace[k].k].Qclass = AllClassBits
           /\ trace[k].unicast
    /\ \E k \in 1..Len(trace) :
           /\ trace[k].ev = "answer" /\ trace[k].id = cmd.id
           /\ cmd.Message.Question[trace[k].k].Qclass = LowClassBits
           /\ ~trace[k].unicast

(***************************************************************************)
(* Instances that share a target FQDN                                      *)
(***************************************************************************)
\* the call made by this step took the registered instance old out of the
\* tree: it removed it, or replaced it by an instance with another target
TakenOut(old) ==
    /\ ~regPanic'
    /\ old \in LiveInstances(domains)
    /\ lastOp'.name = old.Name
    /\ lastOp'.type = old.ServiceType
    /\ lastOp'.domain = old.Domain
    /\ lastOp'.found
    /\ \/ lastOp'.op = "remove"
       \/ /\ lastOp'.op = "add"
          /\ lastOp'.valid
          /\ TargetFQDN(lastOp'.inst) # TargetFQDN(old)

\* C37: when a call removes an instance, or replaces it by one with another
\* target host, while another registered instance has the same target FQDN
\* and the index has the entry for it, the index still has that entry after
\* the call, bound to the target answerer of an instance that is registered
\* and has that target FQDN.
C37_SharedTargetKept ==
    [][\A old \in LiveInstances(domains), x \in LiveInstances(domains) :
           (/\ TakenOut(old)
            /\ x # old
            /\ x \in LiveInstances(domains')
            /\ TargetFQDN(x) = TargetFQDN(old)
            /\ Has(answerers, TargetFQDN(old)))
           => /\ Has(answerers', TargetFQDN(x))
              /\ answerers'[TargetFQDN(x)].kind = "target"
              /\ answerers'[TargetFQDN(x)].inst \in LiveInstances(domains')
              /\ TargetFQDN(answerers'[TargetFQDN(x)].inst) = TargetFQDN(x)]_vars

(***************************************************************************)
(* The multicast wait of a context                                         *)
(***************************************************************************)
\* the larger of two durations
MaxDuration(a, b) == IF a > b THEN a ELSE b

\* C33: the context returned by WithMulticastWait(parent, w) carries a
\* wait, which is w when the parent carries none and the larger of w and
\* the parent's wait otherwise, so it is never shorter than the parent's;
\* when the parent's wait is longer than w the context returned is the
\* parent itself.
C33_LargerWait ==
    call.fn = "WithMulticastWait" =>
        LET p == MulticastWait(call.parent)
            r == MulticastWait(call.ctx)
        IN  /\ r.ok
            /\ ~p.ok => r.w = call.w
            /\ p.ok => (r.w = MaxDuration(call.w, p.w) /\ r.w >= p.w)
            /\ (p.ok /\ p.w > call.w) => call.ctx = call.parent
            /\ call.ctx # call.parent =>
                   call.ctx = Append(call.parent, [key |-> "multicastWaitKey",
                                                   val |-> call.w])

\* WithMulticastWait was called with a wait shorter than the one of its
\* parent, which was itself made by two calls, the inner one attaching a
\* value under another key
C33_Witness ==
    /\ call.fn = "WithMulticastWait"
    /\ Len(call.parent) = 2
    /\ call.parent[2].key = "otherKey"
    /\ MulticastWait(call.parent).ok
    /\ MulticastWait(call.parent).w > call.w
    /\ call.ctx = call.parent

(***************************************************************************)
(* sortSRV                                                                 *)
(***************************************************************************)
\* how often rec occurs in the list s
Occurrences(s, rec) == Cardinality({k \in 1..Len(s) : s[k] = rec})

\* C39: every call of sortSRV returns without a panic and leaves a list
\* with the records of the list given, each as often as it was given, in
\* an order in which no record comes before one of a lower priority.
C39_SortedPermutation ==
    call.fn = "sortSRV" =>
        /\ ~call.panic
        /\ Len(call.out) = Len(call.in)
        /\ \A rec \in SRVRecords :
               Occurrences(call.out, rec) = Occurrences(call.in, rec)
        /\ \A k \in 1..(Len(call.out) - 1) :
               call.out[k].Priority <= call.out[k + 1].Priority

\* what C39 says of the list left, also when the call panicked
C39_ListSide ==
    call.fn = "sortSRV" =>
        /\ Len(call.out) = Len(call.in)
        /\ \A rec \in SRVRecords :
               Occurrences(call.out, rec) = Occurrences(call.in, rec)
        /\ \A k \in 1..(Len(call.out) - 1) :
               call.out[k].Priority <= call.out[k + 1].Priority

(***************************************************************************)
(* A query one of whose questions the Answerer fails for                   *)
(***************************************************************************)
\* the positions in the trace of the answers that were errors
FailedAnswers == {k \in 1..Len(trace) : trace[k].ev = "answer" /\ trace[k].err}

\* C35: when the Answerer returned an error for a question of a query, the
\* next thing the main loop did was to end the handling of that query as
\* failed, no datagram was or is sent for the query, and no question of the
\* query after that one is given to the Answerer.
C35_ErrorStopsQuery ==
    \A k \in FailedAnswers :
        /\ k < Len(trace)
        /\ trace[k + 1] = [id |-> trace[k].id, ev |-> "done",
                           outcome |-> "answer failed"]
        /\ \A j \in 1..Len(trace) :
               trace[j].id = trace[k].id =>
                   /\ trace[j].ev # "send"
                   /\ trace[j].ev = "answer" => trace[j].k <= trace[k].k
                   /\ trace[j].ev = "done" => j = k + 1

\* the Answerer failed for a question that was neither the first nor the
\* last of its query, after it had given records for an earlier question,
\* and the main loop took up its next command or waits for one
C35_Witness ==
    \E k \in FailedAnswers :
        /\ trace[k].k > 1
        /\ \E j \in 1..(k - 1) :
               /\ trace[j].id = trace[k].id
               /\ trace[j].ev = "answer"
               /\ trace[j].a # EmptyAnswer
        /\ mainPc = "select"
        /\ \E c \in {held[t] : t \in Transports} \cup {cmd} :
               /\ c.kind = "query"
               /\ c.id = trace[k].id
               /\ Len(c.Message.Question) > trace[k].k

(***************************************************************************)
(* The hand-off from the receive tasks to the main loop                    *)
(***************************************************************************)
\* the receive task of t holds a command that the main loop has not taken
Holding(t) == held[t] # NoCommand

\* C36: a receive task holds a command exactly while it offers it to the
\* main loop.  While it holds one, no step reads a datagram for it: the
\* command stays the one held until a step in which the main loop, waiting
\* for a command, takes it as its current command and the task goes back to
\* reading, or a step in which the context is done and the task returns.  A
\* step that reads a datagram is made by a task that holds nothing, and the
\* main loop never gets a command but straight from a task that offers it.
C36_NoReadWhileHolding ==
    [][/\ \A t \in Transports :
              /\ Holding(t) <=> recvPc[t] = "handoff"
              /\ Holding(t) =>
                     \/ held'[t] = held[t] /\ recvPc'[t] = "handoff"
                     \/ /\ mainPc = "select"
                        /\ cmd' = held[t]
                        /\ mainPc' = "exec"
                        /\ held'[t] = NoCommand
                        /\ recvPc'[t] = "read"
                        /\ nRead' = nRead
                     \/ /\ ctxDone
                        /\ held'[t] = NoCommand
                        /\ recvPc'[t] = "returned"
                        /\ nRead' = nRead
       /\ nRead' # nRead =>
              /\ nRead' = nRead + 1
              /\ \E t \in Transports :
                     /\ recvPc[t] = "read"
                     /\ ~Holding(t)
                     /\ \A u \in Transports \ {t} :
                            held'[u] = held[u] /\ recvPc'[u] = recvPc[u]
       /\ cmd' # cmd =>
              \E t \in Transports : Holding(t) /\ cmd' = held[t]]_vars

\* both receive tasks hold a command while the main loop handles none, and
\* every datagram the bound allows has been read
C36_Witness ==
    /\ \A t \in Transports : Holding(t) /\ recvPc[t] = "handoff"
    /\ held["udp4"].id # held["udp6"].id
    /\ mainPc = "select"
    /\ nRead = MaxPackets

(***************************************************************************)
(* Concurrent calls of the Answerer                                        *)
(***************************************************************************)
\* the writer w holds the lock exclusively
HoldsExclusive(w) == callers[w].pc \in {"tree", "index", "unlock"}

\* the reader r is in RLock, kept out
KeptOut(r) == callers[r].pc = "blocked"

\* the reader r holds the shared lock
HoldsShared(r) == callers[r].pc \in {"lookup", "answer", "runlock"}

\* C32: a goroutine that called Answer is kept waiting for the lock only
\* while a goroutine in AddInstance or RemoveInstance holds the lock
\* exclusively.
C32_WaitsOnlyForHolder ==
    \A r \in Readers : KeptOut(r) => \E w \in Writers : HoldsExclusive(w)

\* what holds of C32: a reader is kept waiting only while a writer holds
\* the lock or has called Lock and waits for it, never while no writer has
\* called Lock
C32_WaitsOnlyForWriter ==
    \A r \in Readers :
        KeptOut(r) => \E w \in Writers : callers[w].pc # "idle"

\* every entry of the index ans refers to a domain, service or instance
\* that the tree doms holds
IndexInTree(doms, ans) ==
    \A k \in DOMAIN ans :
        CASE ans[k].kind = "typeEnum" -> Has(doms, ans[k].domain)
          [] ans[k].kind = "instanceEnum" ->
                 /\ Has(doms, ans[k].domain)
                 /\ Has(doms[ans[k].domain].Services, ans[k].type)
          [] OTHER -> ans[k].inst \in LiveInstances(doms)

\* every domain, service and instance of the tree doms has its entries in
\* the index ans
TreeInIndex(doms, ans) ==
    /\ \A d \in DOMAIN doms :
           /\ Has(ans, TypeEnumDomain(d))
           /\ \A t \in DOMAIN doms[d].Services :
                  Has(ans, InstanceEnumDomain(t, d))
    /\ \A i \in LiveInstances(doms) :
           /\ Has(ans, InstanceFQDN(i))
           /\ Has(ans, TargetFQDN(i))

\* the tree and the index are as the reader r found them when it took the
\* lock, and no writer holds the lock
Undisturbed(r) ==
    /\ \A w \in Writers : ~HoldsExclusive(w)
    /\ domains = callers[r].snap.domains
    /\ answerers = callers[r].snap.answerers

\* the answer of the reader r is the one Answer gives for the tree and the
\* index as they were when r took the lock
AnswerOfSnapshot(r) ==
    callers[r].pc = "runlock" =>
        callers[r].res = Answer(callers[r].snap.domains,
                                callers[r].snap.answerers, callers[r].q,
                                callers[r].env, callers[r].ord)

\* C34: while a goroutine in Answer holds the shared lock no writer holds
\* the lock and the tree and the index stay as they were when it took the
\* lock; its answer is the answer for that state; and in that state every
\* index entry has its domain, service or instance in the tree, and every
\* domain, service and instance of the tree has its index entries.
C34_ConsistentState ==
    \A r \in Readers :
        HoldsShared(r) =>
            /\ Undisturbed(r)
            /\ AnswerOfSnapshot(r)
            /\ IndexInTree(domains, answerers)
            /\ TreeInIndex(domains, answerers)

\* what holds of C34: all of it but the index entries of the instances in
\* the tree
C34_LockSide ==
    \A r \in Readers :
        HoldsShared(r) =>
            /\ Undisturbed(r)
            /\ AnswerOfSnapshot(r)
            /\ IndexInTree(domains, answerers)

\* a reader computed an answer with records while a writer waits for the
\* lock and the other reader is kept out
C34_LockSideWitness ==
    \E r \in Readers :
        /\ callers[r].pc = "runlock"
        /\ callers[r].res.a # EmptyAnswer
        /\ \E w \in Writers : callers[w].pc = "drain"
        /\ \E s \in Readers : KeptOut(s)

(***************************************************************************)
(* Callers of execute and the end of the main loop                         *)
(***************************************************************************)
\* the main loop has exited: run returned or panicked
MainExited == mainPc \in {"returned", "panic"}

\* the goroutine c waits in the select of execute
InExecute(c) == exec[c].pc = "select"

\* C38: r.done is closed whenever the main loop has exited; a goroutine
\* that waits in execute after run returned gets out of it; and a call of
\* execute that returns after the main loop exited returns the error
\* "server is no longer running" or the error of its context, never nil.
C38_ExecuteNotLeftBlocked ==
    /\ [](MainExited => done)
    /\ \A c \in ExecCallers :
           (mainPc = "returned" /\ InExecute(c)) ~> (exec[c].pc = "returned")
    /\ [][\A c \in ExecCallers :
              (MainExited /\ InExecute(c) /\ exec'[c].pc = "returned")
                  => exec'[c].res \in {"server is no longer running",
                                       "context canceled"}]_vars

\* run has returned and Run too; one goroutine got the error "server is no
\* longer running" from execute although its context was not done, the
\* other had its command taken by the main loop
C38_Witness ==
    /\ mainPc = "returned"
    /\ runResult # "running"
    /\ done
    /\ exec["e1"] = [pc |-> "returned", res |-> "server is no longer running"]
    /\ exec["e2"] = [pc |-> "returned", res |-> "nil"]

(***************************************************************************)
(* The DNS-SD Resolver's query                                             *)
(***************************************************************************)
\* a call of query is under way or has returned
QueryCalled == rq.pc \in {"wait", "returned"}

\* the channel holds at most one response, the first Success or NameError
\* response that arrived, and once it holds one the context of the other
\* exchanges is cancelled
RetainsFirst ==
    QueryCalled =>
        /\ Len(rq.result) <= 1
        /\ rq.arrived = <<>> => rq.result = <<>>
        /\ rq.arrived # <<>> =>
               (rq.result = <<rq.arrived[1]>> /\ rq.cancelled)

\* the errors an exchange returns because its context was cancelled
AbortErrors == {"context canceled", "operation was canceled"}

\* C40: the channel holds at most one response, the first Success or
\* NameError response that arrived, and the other exchanges are cancelled
\* from then on; when a response was retained and no exchange returned an
\* error but for its cancellation, query returns that response and no
\* error.
C40_FirstResponseReturned ==
    /\ RetainsFirst
    /\ (rq.pc = "returned" /\ rq.arrived # <<>> /\ rq.errs \subseteq AbortErrors)
           => rq.ret = [res |-> <<rq.arrived[1]>>, err |-> "nil"]

\* what holds of C40: the first response is retained as said, and query
\* returns it when no exchange returned an error other than
\* context.Canceled itself
C40_RetainedSide ==
    /\ RetainsFirst
    /\ (rq.pc = "returned" /\ rq.errs \subseteq {"context canceled"})
           => rq.ret = [res |-> rq.result, err |-> "nil"]

\* query returned the first of two responses that arrived, an aborted
\* exchange having returned context.Canceled
C40_RetainedSideWitness ==
    /\ rq.pc = "returned"
    /\ Len(rq.arrived) = 2
    /\ rq.errs = {"context canceled"}
    /\ rq.ret = [res |-> <<rq.arrived[1]>>, err |-> "nil"]
====
